---------------------------- MODULE Spec2Model ----------------------------
(***************************************************************************)
(* A model of the FastMath linear-algebra library: Transform's lazily      *)
(* rebuilt matrix cache, the Matrix algorithms (construction, products,    *)
(* transpose, determinant, inverse, scalar division), and the Vector and   *)
(* Quaternion constructors and operators.                                  *)
(*                                                                         *)
(* The element type T stands for float/double and is modelled by the exact *)
(* rationals, a pair <<numerator, denominator>> in lowest terms with a     *)
(* positive denominator, extended by the IEEE results of a division by     *)
(* zero: <<1,0>> (+inf), <<-1,0>> (-inf) and <<0,0>> (NaN).  Rounding is   *)
(* not modelled.  A matrix keeps the flat row-major array m of the source, *)
(* m[i * M + j] being row i, column j; sequences are 1-based, so the       *)
(* source's m[k] is m[k + 1] here.                                         *)
(***************************************************************************)
EXTENDS Integers, Sequences, FiniteSets, TLC

VARIABLES
    \* Transform<T> (Transform.hpp:36-44)
    scale, translate, rotationOrigin, rotation, matrix, isDirty,
    \* observation of the calls made on the Transform
    lastCall,      \* the member function that ran last
    wasDirty,      \* isDirty as it was when that call began
    rebuilds,      \* runs of rebuild() since the last setter (or construction)
    lastArg,       \* the argument of that call (<<>> when it took none)
    \* one call of a Matrix / Vector / Quaternion function
    lhs, rhs,      \* the operands
    res,           \* the value handed back to the caller
    op,            \* the function that was called ("none" before the call)
    fault,         \* "none", or "assert" when the call ended in assert()
    oob,           \* TRUE when the call touched memory outside its operands
    ndebug         \* the build: TRUE when NDEBUG compiles assert() out

tvars == <<scale, translate, rotationOrigin, rotation, matrix, isDirty,
           lastCall, wasDirty, rebuilds, lastArg>>
pvars == <<lhs, rhs, res, op, fault, oob, ndebug>>
vars  == <<scale, translate, rotationOrigin, rotation, matrix, isDirty,
           lastCall, wasDirty, rebuilds, lastArg, lhs, rhs, res, op, fault, oob, ndebug>>

---------------------------------------------------------------------------
(* Bounds of the model.                                                    *)

\* how many of the sample arguments below a Transform call may pass
NumArgs == 2

\* the largest number of rows or columns of an operand of operator*
MaxDim == 3

\* the largest rank of an operand of determinant and inverse
MaxRank == 4

\* the operands are the sample matrices Gen(N, M, 0) .. Gen(N, M, MaxSeed)
MaxSeed == 5

---------------------------------------------------------------------------
(* The element type T.                                                     *)

Abs(x) == IF x < 0 THEN -x ELSE x

Sgn(x) == IF x < 0 THEN -1 ELSE IF x > 0 THEN 1 ELSE 0

RECURSIVE Gcd(_, _)
Gcd(x, y) == IF y = 0 THEN x ELSE Gcd(y, x % y)

\* the value n / d
Q(n, d) ==
    IF d = 0 THEN <<Sgn(n), 0>>
    ELSE LET g == Gcd(Abs(n), Abs(d))
         IN  <<(Sgn(d) * n) \div g, Abs(d) \div g>>

\* T( n ), static_cast<T>( n )
T(n) == <<n, 1>>

TAdd(x, y) ==
    IF x[2] = 1 /\ y[2] = 1 THEN <<x[1] + y[1], 1>>
    ELSE IF x[2] = 0 /\ y[2] = 0
         THEN (IF x[1] = y[1] THEN x ELSE <<0, 0>>)
         ELSE Q(x[1] * y[2] + y[1] * x[2], x[2] * y[2])

TNeg(x) == <<-x[1], x[2]>>

TSub(x, y) == TAdd(x, TNeg(y))

TMul(x, y) ==
    IF x[2] = 1 /\ y[2] = 1 THEN <<x[1] * y[1], 1>>
    ELSE Q(x[1] * y[1], x[2] * y[2])

TDiv(x, y) == Q(x[1] * y[2] * Sgn(y[1]), x[2] * Abs(y[1]))

RECURSIVE Sum(_)
\* the running total of a loop's "+=" over the terms s, starting from T( 0 )
Sum(s) == IF s = <<>> THEN T(0) ELSE TAdd(Sum(SubSeq(s, 1, Len(s) - 1)), s[Len(s)])

Min(x, y) == IF x < y THEN x ELSE y

---------------------------------------------------------------------------
(* Vector<T, N>: the sequence vec of N values.                             *)

\* Vector<T, N>::operator-()
Vector_operatorNeg(v) == [i \in 1..Len(v) |-> TNeg(v[i])]

---------------------------------------------------------------------------
(* Matrix<T, N, M>: [N, M, m] with m the flat array of N * M values.       *)

\* MatrixBase(): m {}
Matrix_default(N, M) == [N |-> N, M |-> M, m |-> [k \in 1..(N * M) |-> T(0)]]

\* Matrix( std::initializer_list<X> l )
Matrix_list(N, M, l) ==
    LET c == Min(N * M, Len(l))
    IN  [N |-> N, M |-> M,
         m |-> [k \in 1..(N * M) |-> IF k <= c THEN l[k] ELSE T(0)]]

\* diagonal( x ) stepping through m by the number of rows: res.m[i * N + i]
diagonal_rowStride(N, M, x) ==
    [N |-> N, M |-> M,
     m |-> [k \in 1..(N * M) |->
              IF \E i \in 0..(Min(N, M) - 1) : k - 1 = i * N + i THEN x ELSE T(0)]]

\* Matrix::diagonal( x ): res.m[i * M + i] = x for i < rank
diagonal(N, M, x) ==
    [N |-> N, M |-> M,
     m |-> [k \in 1..(N * M) |->
              IF \E i \in 0..(Min(N, M) - 1) : k - 1 = i * M + i THEN x ELSE T(0)]]

\* Matrix::IDENTITY = diagonal<T>()
IDENTITY(N, M) == diagonal(N, M, T(1))

\* the element read at flat index k of X; a read past the end of the array
\* yields whatever the memory holds, g
Rd(X, k, g) == IF k < X.N * X.M THEN X.m[k + 1] ELSE g

\* Matrix::operator*( const Matrix<T, M, P>& rhs ): for i < N, j < M, k < P
\*     res.m[i * P + j] += m[i * M + k] * rhs.m[k * P + j]
\* with g the value found by reads outside the operands; writes outside res
\* are not part of the value returned.
Matrix_operatorMul(A, B, g) ==
    LET N == A.N
        M == A.M
        P == B.M
        Inner(i, j) == Sum([k \in 1..P |->
                              TMul(Rd(A, i * M + (k - 1), g),
                                   Rd(B, (k - 1) * P + j, g))])
    IN  [N |-> N, M |-> P,
         m |-> [t \in 1..(N * P) |->
                  Sum([i \in 1..N |->
                         LET j == (t - 1) - (i - 1) * P
                         IN  IF 0 <= j /\ j < M THEN Inner(i - 1, j) ELSE T(0)])]]

\* TRUE when the loops of operator* index outside m, rhs.m or res.m
Matrix_operatorMul_oob(A, B) ==
    \E i \in 0..(A.N - 1), j \in 0..(A.M - 1), k \in 0..(B.M - 1) :
        \/ i * A.M + k >= A.N * A.M
        \/ k * B.M + j >= B.N * B.M
        \/ i * B.M + j >= A.N * B.M

\* Matrix::operator*=( const Matrix<T, M, M>& rhs ): *this = *this * rhs
Matrix_operatorMulAssign(A, B) == Matrix_operatorMul(A, B, T(0))

\* translate( const Vector<T, 3>& t )
translateM(t) ==
    Matrix_list(4, 4, << T(1), T(0), T(0), t[1],
                         T(0), T(1), T(0), t[2],
                         T(0), T(0), T(1), t[3],
                         T(0), T(0), T(0), T(1) >>)

\* scale( const Vector<T, 3>& s )
scaleM(s) ==
    Matrix_list(4, 4, << s[1], T(0), T(0), T(0),
                         T(0), s[2], T(0), T(0),
                         T(0), T(0), s[3], T(0),
                         T(0), T(0), T(0), T(1) >>)

---------------------------------------------------------------------------
(* Calls that may end in assert().                                         *)

\* the call handed v back to its caller
Returned(v) == [fault |-> "none", value |-> v]

\* the call ended in a failed assert(): nothing is handed back
Aborted == [fault |-> "assert", value |-> <<>>]

---------------------------------------------------------------------------
(* Matrix: transpose, determinant, inverse, scalar division.               *)

\* the generic transpose with the row loop one short: for i < N - 1
Matrix_Transpose_generic_shortLoop(A) ==
    [N |-> A.M, M |-> A.N,
     m |-> [t \in 1..(A.N * A.M) |->
              LET j == (t - 1) \div A.N
                  i == (t - 1) % A.N
              IN  IF i < A.N - 1 THEN A.m[i * A.M + j + 1] ELSE T(0)]]

\* Matrix_Transpose<T, N, M>::transpose: res.m[j * N + i] = m.m[i * M + j]
\* for i < N, j < M, on a zero-initialised res
Matrix_Transpose_generic(A) ==
    [N |-> A.M, M |-> A.N,
     m |-> [t \in 1..(A.N * A.M) |->
              LET j == (t - 1) \div A.N
                  i == (t - 1) % A.N
              IN  A.m[i * A.M + j + 1]]]

\* std::swap( m.m[p], m.m[q] )
swap(m, p, q) == [m EXCEPT ![p + 1] = m[q + 1], ![q + 1] = m[p + 1]]

RECURSIVE Matrix_Transpose_swaps(_, _, _, _)
\* the loop of Matrix_Transpose<T, N, N>::transpose from ( i, j ) on:
\* for i < N, for j = i + 1 .. N - 1, swap m[i * N + j] and m[j * N + i]
Matrix_Transpose_swaps(m, N, i, j) ==
    IF i >= N THEN m
    ELSE IF j >= N THEN Matrix_Transpose_swaps(m, N, i + 1, i + 2)
    ELSE Matrix_Transpose_swaps(swap(m, i * N + j, j * N + i), N, i, j + 1)

\* the square transpose with the loop over i starting at 1
Matrix_Transpose_square_skipsFirstRow(A) ==
    [A EXCEPT !.m = Matrix_Transpose_swaps(A.m, A.N, 1, 2)]

\* Matrix_Transpose<T, N, N>::transpose( Matrix<T, N, N> m )
Matrix_Transpose_square(A) ==
    [A EXCEPT !.m = Matrix_Transpose_swaps(A.m, A.N, 0, 1)]

\* transpose( m ): the partial specialisation is chosen when N == M
transpose(A) ==
    IF A.N = A.M THEN Matrix_Transpose_square(A) ELSE Matrix_Transpose_generic(A)

\* the submatrix constructor with the tests on row and col exchanged:
\* row != j && col != i
Matrix_minor_exchanged(copy, i, j) ==
    LET N == copy.N - 1
        M == copy.M - 1
        kept == SelectSeq([k \in 1..((N + 1) * (M + 1)) |-> k - 1],
                          LAMBDA k : (k \div (M + 1)) # j /\ (k % (M + 1)) # i)
    IN  [N |-> N, M |-> M, m |-> [n \in 1..Len(kept) |-> copy.m[kept[n] + 1]]]

\* Matrix( const Matrix<U, N + 1, M + 1>& copy, i, j ): the elements written
\* at m[c++], in the order of the two loops over row <= N and col <= M
Matrix_minor(copy, i, j) ==
    LET N == copy.N - 1
        M == copy.M - 1
        kept == SelectSeq([k \in 1..((N + 1) * (M + 1)) |-> k - 1],
                          LAMBDA k : (k \div (M + 1)) # i /\ (k % (M + 1)) # j)
    IN  [N |-> N, M |-> M, m |-> [n \in 1..Len(kept) |-> copy.m[kept[n] + 1]]]

\* c( i, j ) with the sign lost: cofactor[] = { T( 1 ), T( 1 ) }
Matrix_Determinant_c_unsigned(i, j) == T(1)

\* Matrix_Determinant<T, N, N>::c( i, j ) and Matrix_Inverse<T, N, N>::c( i, j )
Matrix_Determinant_c(i, j) == IF (i + j) % 2 = 0 THEN T(1) ELSE T(-1)

RECURSIVE determinant(_)
\* Matrix_Determinant<T, 1, 1>::determinant and
\* Matrix_Determinant<T, N, N>::determinant
determinant(A) ==
    IF A.N = 1 THEN A.m[1]
    ELSE Sum([j \in 1..A.N |->
                TMul(TMul(A.m[j], Matrix_Determinant_c(0, j - 1)), determinant(Matrix_minor(A, 0, j - 1)))])

\* adjugate without the transposition: res.m[i * N + j] = ...
adjugate_untransposed(A) ==
    [A EXCEPT !.m = [t \in 1..(A.N * A.N) |->
                       LET i == (t - 1) \div A.N
                           j == (t - 1) % A.N
                       IN  TMul(Matrix_Determinant_c(i, j), determinant(Matrix_minor(A, i, j)))]]

\* Matrix_Inverse<T, N, N>::adjugate:
\*     res.m[j * N + i] = c( i, j ) * determinant( { m, i, j } )
adjugate(A) ==
    [A EXCEPT !.m = [t \in 1..(A.N * A.N) |->
                       LET j == (t - 1) \div A.N
                           i == (t - 1) % A.N
                       IN  TMul(Matrix_Determinant_c(i, j), determinant(Matrix_minor(A, i, j)))]]

\* Matrix::operator/( T s )
Matrix_operatorDiv(A, s) ==
    IF s # T(0)
    THEN LET s_inv == TDiv(T(1), s)
         IN  [A EXCEPT !.m = [k \in 1..(A.N * A.M) |-> TMul(A.m[k], s_inv)]]
    ELSE Matrix_default(A.N, A.M)

\* Matrix::operator/=( T s )
Matrix_operatorDivAssign(A, s) ==
    IF s # T(0)
    THEN LET s_inv == TDiv(T(1), s)
         IN  [A EXCEPT !.m = [k \in 1..(A.N * A.M) |-> TMul(A.m[k], s_inv)]]
    ELSE A

\* Matrix_Inverse<T, 1, 1>::inverse: T( 1 ) / m.m[0], converted by Matrix( U s )
Matrix_Inverse_1x1(A) == diagonal(1, 1, TDiv(T(1), A.m[1]))

\* the determinant of inverse() taken along the first row of the adjugate:
\* det += m.m[j] * adj.m[j]
Matrix_Inverse_det_firstRow(A) ==
    LET adj == adjugate(A)
    IN  Sum([j \in 1..A.N |-> TMul(A.m[j], adj.m[j])])

\* the determinant Matrix_Inverse<T, N, N>::inverse accumulates:
\* det += m.m[j] * adj.m[j * N] for j < N
Matrix_Inverse_det(A) ==
    LET adj == adjugate(A)
    IN  Sum([j \in 1..A.N |-> TMul(A.m[j], adj.m[(j - 1) * A.N + 1])])

\* Matrix_Inverse<T, N, N>::inverse in a build with NDEBUG set (nd) or not
Matrix_Inverse_NxN(A, nd) ==
    LET adj == adjugate(A)
        det == Matrix_Inverse_det(A)
    IN  IF det # T(0) THEN Returned(Matrix_operatorDiv(adj, det))
        ELSE IF nd THEN Returned(A)
        ELSE Aborted

\* inverse( m )
inverse(A, nd) ==
    IF A.N = 1 THEN Returned(Matrix_Inverse_1x1(A)) ELSE Matrix_Inverse_NxN(A, nd)

\* Vector::operator/( U s ) in a build with NDEBUG set (nd) or not
Vector_operatorDiv(v, s, nd) ==
    IF ~nd /\ ~(s # T(0)) THEN Aborted
    ELSE Returned([i \in 1..Len(v) |-> TDiv(v[i], s)])

\* Vector::operator/=( U s )
Vector_operatorDivAssign(v, s, nd) ==
    IF ~nd /\ ~(s # T(0)) THEN Aborted
    ELSE Returned([i \in 1..Len(v) |-> TDiv(v[i], s)])

---------------------------------------------------------------------------
(* Quaternion<T>: [w, x, y, z].                                            *)

Quaternion_IDENTITY == [w |-> T(1), x |-> T(0), y |-> T(0), z |-> T(0)]

\* Quaternion::operator*( U s )
Quaternion_operatorMulScalar(q, s) ==
    [w |-> TMul(q.w, s), x |-> TMul(q.x, s), y |-> TMul(q.y, s), z |-> TMul(q.z, s)]

\* Quaternion::operator/( U s ) in a build with NDEBUG set (nd) or not
Quaternion_operatorDiv(q, s, nd) ==
    IF ~nd /\ ~(s # T(0)) THEN Aborted
    ELSE LET invS == TDiv(T(1), s)
         IN  Returned(Quaternion_operatorMulScalar(q, invS))

\* Quaternion::operator/=( U s )
Quaternion_operatorDivAssign(q, s, nd) ==
    IF ~nd /\ ~(s # T(0)) THEN Aborted
    ELSE LET invS == TDiv(T(1), s)
         IN  Returned([w |-> TMul(q.w, invS), x |-> TMul(q.x, invS),
                       y |-> TMul(q.y, invS), z |-> TMul(q.z, invS)])

\* toMat4( const Quaternion<T>& q )
toMat4(q) ==
    LET xx == TMul(q.x, q.x)
        yy == TMul(q.y, q.y)
        zz == TMul(q.z, q.z)
        xz == TMul(q.x, q.z)
        xy == TMul(q.x, q.y)
        yz == TMul(q.y, q.z)
        wx == TMul(q.w, q.x)
        wy == TMul(q.w, q.y)
        wz == TMul(q.w, q.z)
        One == T(1)
        Two == T(2)
    IN  Matrix_list(4, 4, <<
          TSub(One, TMul(Two, TAdd(yy, zz))), TMul(Two, TSub(xy, wz)), TMul(Two, TAdd(xz, wy)), T(0),
          TMul(Two, TAdd(xy, wz)), TSub(One, TMul(Two, TAdd(xx, zz))), TMul(Two, TSub(yz, wx)), T(0),
          TMul(Two, TSub(xz, wy)), TMul(Two, TAdd(yz, wx)), TSub(One, TMul(Two, TAdd(xx, yy))), T(0),
          T(0), T(0), T(0), T(1) >>)

---------------------------------------------------------------------------
(* Transform<T>.                                                           *)

\* arguments passed to the constructor and the setters; the first of each
\* list is the constructor's default
ScaleSamples ==
    << <<T(1), T(1), T(1)>>, <<T(2), T(3), T(5)>>, <<T(-1), Q(1, 2), T(4)>> >>
VectorSamples ==
    << <<T(0), T(0), T(0)>>, <<T(1), T(2), T(3)>>, <<T(-2), T(0), Q(3, 2)>> >>
QuaternionSamples ==
    << Quaternion_IDENTITY,
       [w |-> Q(1, 2), x |-> Q(1, 2), y |-> Q(1, 2), z |-> Q(-1, 2)],
       [w |-> T(0), x |-> Q(3, 5), y |-> T(0), z |-> Q(4, 5)] >>

Take(samples) == {samples[k] : k \in 1..Min(NumArgs, Len(samples))}

ScaleArgs == Take(ScaleSamples)
VectorArgs == Take(VectorSamples)
QuaternionArgs == Take(QuaternionSamples)

\* Transform::rebuild(): the matrix it stores
rebuild_matrix ==
    LET m1 == translateM(translate)
        m2 == Matrix_operatorMulAssign(m1, translateM(rotationOrigin))
        m3 == Matrix_operatorMulAssign(m2, toMat4(rotation))
        m4 == Matrix_operatorMulAssign(m3, translateM(Vector_operatorNeg(rotationOrigin)))
    IN  Matrix_operatorMulAssign(m4, scaleM(scale))

\* the operands of the Matrix calls while a Transform is the subject
PureIdle ==
    /\ lhs = <<>> /\ rhs = <<>> /\ res = <<>>
    /\ op = "none" /\ fault = "none" /\ oob = FALSE /\ ndebug = FALSE

\* Transform::Transform( scale, translate, rotationOrigin, rotation )
InitTransform ==
    /\ scale \in ScaleArgs
    /\ translate \in VectorArgs
    /\ rotationOrigin \in VectorArgs
    /\ rotation \in QuaternionArgs
    /\ matrix = IDENTITY(4, 4)
    /\ isDirty = FALSE
    /\ lastCall = "Transform"
    /\ wasDirty = FALSE
    /\ rebuilds = 0
    /\ lastArg = <<>>
    /\ PureIdle

\* Transform::setScale( scale )
setScale ==
    \E v \in ScaleArgs :
        /\ scale' = v
        /\ isDirty' = TRUE
        /\ lastCall' = "setScale" /\ wasDirty' = isDirty /\ rebuilds' = 0
        /\ lastArg' = v
        /\ UNCHANGED <<translate, rotationOrigin, rotation, matrix>>
        /\ UNCHANGED pvars

\* Transform::setTranslate( translate )
setTranslate ==
    \E v \in VectorArgs :
        /\ translate' = v
        /\ isDirty' = TRUE
        /\ lastCall' = "setTranslate" /\ wasDirty' = isDirty /\ rebuilds' = 0
        /\ lastArg' = v
        /\ UNCHANGED <<scale, rotationOrigin, rotation, matrix>>
        /\ UNCHANGED pvars

\* Transform::getScale()
getScale == scale

\* Transform::getTranslate()
getTranslate == translate

\* Transform::getRotationOrigin()
getRotationOrigin == rotationOrigin

\* Transform::getRotation()
getRotation == rotation

\* setRotationOrigin storing into translate: this->translate = rotationOrigin
setRotationOrigin_writesTranslate ==
    \E v \in VectorArgs :
        /\ translate' = v
        /\ isDirty' = TRUE
        /\ lastCall' = "setRotationOrigin" /\ wasDirty' = isDirty /\ rebuilds' = 0
        /\ lastArg' = v
        /\ UNCHANGED <<scale, rotationOrigin, rotation, matrix>>
        /\ UNCHANGED pvars

\* Transform::setRotationOrigin( rotationOrigin )
setRotationOrigin ==
    \E v \in VectorArgs :
        /\ rotationOrigin' = v
        /\ isDirty' = TRUE
        /\ lastCall' = "setRotationOrigin" /\ wasDirty' = isDirty /\ rebuilds' = 0
        /\ lastArg' = v
        /\ UNCHANGED <<scale, translate, rotation, matrix>>
        /\ UNCHANGED pvars

\* setRotation without "isDirty = true"
setRotation_keepsFlag ==
    \E q \in QuaternionArgs :
        /\ rotation' = q
        /\ lastCall' = "setRotation" /\ wasDirty' = isDirty /\ rebuilds' = 0
        /\ lastArg' = q
        /\ UNCHANGED <<scale, translate, rotationOrigin, matrix, isDirty>>
        /\ UNCHANGED pvars

\* Transform::setRotation( rotation )
setRotation ==
    \E q \in QuaternionArgs :
        /\ rotation' = q
        /\ isDirty' = TRUE
        /\ lastCall' = "setRotation" /\ wasDirty' = isDirty /\ rebuilds' = 0
        /\ lastArg' = q
        /\ UNCHANGED <<scale, translate, rotationOrigin, matrix>>
        /\ UNCHANGED pvars

\* getMatrix without the test of isDirty: rebuild(); return matrix;
getMatrix_alwaysRebuilds ==
    /\ matrix' = rebuild_matrix
    /\ isDirty' = FALSE
    /\ rebuilds' = rebuilds + 1
    /\ lastCall' = "getMatrix" /\ wasDirty' = isDirty /\ lastArg' = <<>>
    /\ UNCHANGED <<scale, translate, rotationOrigin, rotation>>
    /\ UNCHANGED pvars

\* Transform::getMatrix(): if ( isDirty ) rebuild(); return matrix;
getMatrix ==
    /\ IF isDirty
       THEN /\ matrix' = rebuild_matrix
            /\ isDirty' = FALSE
            /\ rebuilds' = rebuilds + 1
       ELSE UNCHANGED <<matrix, isDirty, rebuilds>>
    /\ lastCall' = "getMatrix" /\ wasDirty' = isDirty /\ lastArg' = <<>>
    /\ UNCHANGED <<scale, translate, rotationOrigin, rotation>>
    /\ UNCHANGED pvars

NextTransform ==
    \/ setScale
    \/ setTranslate
    \/ setRotationOrigin
    \/ setRotation
    \/ getMatrix

SpecTransform == InitTransform /\ [][NextTransform]_vars

---------------------------------------------------------------------------
(* Single calls of the Matrix functions.                                   *)

\* the Transform while a Matrix function is the subject
TransformIdle ==
    /\ scale = ScaleSamples[1]
    /\ translate = VectorSamples[1]
    /\ rotationOrigin = VectorSamples[1]
    /\ rotation = Quaternion_IDENTITY
    /\ matrix = IDENTITY(4, 4)
    /\ isDirty = FALSE
    /\ lastCall = "none" /\ wasDirty = FALSE /\ rebuilds = 0 /\ lastArg = <<>>

\* element k of sample matrix number seed: a value among -3 .. 3, over the
\* denominator 1 (even seed) or 2 (odd seed)
Elem(seed, k) == Q(((k * k * k + (seed + 2) * k * k + seed) % 7) - 3, 1 + (seed % 2))

\* the N x M sample matrix number seed
Gen(N, M, seed) == [N |-> N, M |-> M, m |-> [k \in 1..(N * M) |-> Elem(seed, k)]]

\* the operands of the tests Matrix_Inverse2, Matrix_Determinate2 and
\* Matrix_Inverse3
Test2x2 == Matrix_list(2, 2, <<T(2), T(3), T(2), T(2)>>)
Test3x3Singular ==
    Matrix_list(3, 3, <<T(1), T(2), T(3), T(4), T(5), T(6), T(7), T(8), T(9)>>)
Test3x3 ==
    Matrix_list(3, 3, <<T(1), T(2), T(3), T(3), T(2), T(1), T(2), T(1), T(3)>>)

\* what a read outside the operands of operator* may find
Garbage == {T(0), T(1), Q(-5, 2)}

\* --- operator* and operator*= ------------------------------------------

InitMul ==
    /\ \E N \in 1..MaxDim, M \in 1..MaxDim, P \in 1..MaxDim :
       \E sa \in 0..MaxSeed, sb \in 0..MaxSeed :
           /\ lhs = Gen(N, M, sa)
           /\ rhs = Gen(M, P, sb)
    /\ res = <<>> /\ op = "none" /\ fault = "none" /\ oob = FALSE
    /\ ndebug = FALSE
    /\ TransformIdle

\* lhs * rhs
Multiply ==
    /\ op = "none"
    /\ \E g \in Garbage : res' = Matrix_operatorMul(lhs, rhs, g)
    /\ oob' = Matrix_operatorMul_oob(lhs, rhs)
    /\ op' = "operator*"
    /\ UNCHANGED <<lhs, rhs, fault, ndebug>>
    /\ UNCHANGED tvars

\* lhs *= rhs, which compiles for a square rhs only
MultiplyAssign ==
    /\ op = "none"
    /\ rhs.N = rhs.M
    /\ res' = Matrix_operatorMulAssign(lhs, rhs)
    /\ oob' = Matrix_operatorMul_oob(lhs, rhs)
    /\ op' = "operator*="
    /\ UNCHANGED <<lhs, rhs, fault, ndebug>>
    /\ UNCHANGED tvars

NextMul ==
    \/ Multiply
    \/ MultiplyAssign

SpecMul == InitMul /\ [][NextMul]_vars

\* --- determinant and inverse -------------------------------------------

SquareOperands ==
    UNION {{Gen(n, n, seed) : seed \in 0..MaxSeed} \cup {IDENTITY(n, n), Matrix_default(n, n)}
           : n \in 1..MaxRank}
    \cup {Test2x2, Test3x3Singular, Test3x3}

InitSquare ==
    /\ lhs \in SquareOperands
    /\ rhs = <<>>
    /\ res = <<>> /\ op = "none" /\ fault = "none" /\ oob = FALSE
    /\ ndebug \in BOOLEAN
    /\ TransformIdle

\* determinant( lhs )
Determinant ==
    /\ op = "none"
    /\ res' = determinant(lhs)
    /\ op' = "determinant"
    /\ UNCHANGED <<lhs, rhs, fault, oob, ndebug>>
    /\ UNCHANGED tvars

\* inverse( lhs )
Inverse ==
    /\ op = "none"
    /\ LET r == inverse(lhs, ndebug)
       IN  res' = r.value /\ fault' = r.fault
    /\ op' = "inverse"
    /\ UNCHANGED <<lhs, rhs, oob, ndebug>>
    /\ UNCHANGED tvars

NextSquare ==
    \/ Determinant
    \/ Inverse

SpecSquare == InitSquare /\ [][NextSquare]_vars

\* --- transpose -----------------------------------------------------------

InitTranspose ==
    /\ \E N \in 1..MaxDim, M \in 1..MaxDim, seed \in 0..MaxSeed : lhs = Gen(N, M, seed)
    /\ rhs = <<>>
    /\ res = <<>> /\ op = "none" /\ fault = "none" /\ oob = FALSE
    /\ ndebug = FALSE
    /\ TransformIdle

\* transpose( lhs )
Transpose ==
    /\ op = "none"
    /\ res' = transpose(lhs)
    /\ op' = "transpose"
    /\ UNCHANGED <<lhs, rhs, fault, oob, ndebug>>
    /\ UNCHANGED tvars

\* transpose( transpose( lhs ) ): the second call, on the result of the first
TransposeAgain ==
    /\ op = "transpose"
    /\ res' = transpose(res)
    /\ op' = "transpose transpose"
    /\ UNCHANGED <<lhs, rhs, fault, oob, ndebug>>
    /\ UNCHANGED tvars

NextTranspose ==
    \/ Transpose
    \/ TransposeAgain

SpecTranspose == InitTranspose /\ [][NextTranspose]_vars

\* --- scalar division -----------------------------------------------------

\* the scalars passed to operator/ and operator/=
Scalars == {T(0), T(2), Q(-3, 2)}

\* the sample vector and the sample quaternion number seed
GenVector(N, seed) == [k \in 1..N |-> Elem(seed, k)]
GenQuaternion(seed) ==
    [w |-> Elem(seed, 1), x |-> Elem(seed, 2), y |-> Elem(seed, 3), z |-> Elem(seed, 4)]

\* lhs holds one operand of each class, rhs the scalar
InitDiv ==
    /\ \E N \in 1..MaxDim, M \in 1..MaxDim, seed \in 0..MaxSeed :
           lhs = [matrix |-> Gen(N, M, seed),
                  vector |-> GenVector(M, seed),
                  quaternion |-> GenQuaternion(seed)]
    /\ rhs \in Scalars
    /\ res = <<>> /\ op = "none" /\ fault = "none" /\ oob = FALSE
    /\ ndebug \in BOOLEAN
    /\ TransformIdle

\* lhs.matrix / rhs
Matrix_Div ==
    /\ op = "none"
    /\ res' = Matrix_operatorDiv(lhs.matrix, rhs)
    /\ op' = "Matrix::operator/"
    /\ UNCHANGED <<lhs, rhs, fault, oob, ndebug>>
    /\ UNCHANGED tvars

\* lhs.matrix /= rhs
Matrix_DivAssign ==
    /\ op = "none"
    /\ res' = Matrix_operatorDivAssign(lhs.matrix, rhs)
    /\ op' = "Matrix::operator/="
    /\ UNCHANGED <<lhs, rhs, fault, oob, ndebug>>
    /\ UNCHANGED tvars

\* lhs.vector / rhs
Vector_Div ==
    /\ op = "none"
    /\ LET r == Vector_operatorDiv(lhs.vector, rhs, ndebug)
       IN  res' = r.value /\ fault' = r.fault
    /\ op' = "Vector::operator/"
    /\ UNCHANGED <<lhs, rhs, oob, ndebug>>
    /\ UNCHANGED tvars

\* lhs.vector /= rhs
Vector_DivAssign ==
    /\ op = "none"
    /\ LET r == Vector_operatorDivAssign(lhs.vector, rhs, ndebug)
       IN  res' = r.value /\ fault' = r.fault
    /\ op' = "Vector::operator/="
    /\ UNCHANGED <<lhs, rhs, oob, ndebug>>
    /\ UNCHANGED tvars

\* lhs.quaternion / rhs
Quaternion_Div ==
    /\ op = "none"
    /\ LET r == Quaternion_operatorDiv(lhs.quaternion, rhs, ndebug)
       IN  res' = r.value /\ fault' = r.fault
    /\ op' = "Quaternion::operator/"
    /\ UNCHANGED <<lhs, rhs, oob, ndebug>>
    /\ UNCHANGED tvars

\* lhs.quaternion /= rhs
Quaternion_DivAssign ==
    /\ op = "none"
    /\ LET r == Quaternion_operatorDivAssign(lhs.quaternion, rhs, ndebug)
       IN  res' = r.value /\ fault' = r.fault
    /\ op' = "Quaternion::operator/="
    /\ UNCHANGED <<lhs, rhs, oob, ndebug>>
    /\ UNCHANGED tvars

NextDiv ==
    \/ Matrix_Div
    \/ Matrix_DivAssign
    \/ Vector_Div
    \/ Vector_DivAssign
    \/ Quaternion_Div
    \/ Quaternion_DivAssign

SpecDiv == InitDiv /\ [][NextDiv]_vars

---------------------------------------------------------------------------
(* Construction of a Matrix.                                               *)

\* Matrix( U s ): m[i * M + i] = s for i < rank, over the zeros of m {}
Matrix_scalar(N, M, s) ==
    [N |-> N, M |-> M,
     m |-> [k \in 1..(N * M) |->
              IF \E i \in 0..(Min(N, M) - 1) : k - 1 = i * M + i THEN s ELSE T(0)]]

\* the diagonal fill of the converting constructor starting at k = 0
Matrix_convert_fillFromZero(N, M, copy) ==
    [N |-> N, M |-> M,
     m |-> [t \in 1..(N * M) |->
              LET i == (t - 1) \div M
                  j == (t - 1) % M
              IN  IF i = j /\ i < Min(N, M) THEN T(1)
                  ELSE IF i < Min(N, copy.N) /\ j < Min(M, copy.M)
                       THEN copy.m[i * copy.M + j + 1]
                       ELSE T(0)]]

\* Matrix( const Matrix<X, I, J>& copy ): the overlap of n rows and m columns
\* is copied over the zeros of m {}, then m[k * M + k] = T( 1 ) for
\* min( n, m ) <= k < rank; the later write wins
Matrix_convert(N, M, copy) ==
    LET I == copy.N
        J == copy.M
        n == Min(N, I)
        m == Min(M, J)
    IN  [N |-> N, M |-> M,
         m |-> [t \in 1..(N * M) |->
                  LET i == (t - 1) \div M
                      j == (t - 1) % M
                  IN  IF i = j /\ Min(n, m) <= i /\ i < Min(N, M) THEN T(1)
                      ELSE IF i < n /\ j < m THEN copy.m[i * J + j + 1]
                           ELSE T(0)]]

\* Matrix<T, N, M>( copy, i, j ) of an (N + 1) x (M + 1) copy: the writes to
\* m[c++] that land inside m, over the zeros of m {}
Matrix_submatrix(copy, i, j) ==
    LET N == copy.N - 1
        M == copy.M - 1
        written == Matrix_minor(copy, i, j).m
    IN  [N |-> N, M |-> M,
         m |-> [c \in 1..(N * M) |-> IF c <= Len(written) THEN written[c] ELSE T(0)]]

\* TRUE when m[c++] runs past the N * M elements of m
Matrix_submatrix_oob(copy, i, j) ==
    Len(Matrix_minor(copy, i, j).m) > (copy.N - 1) * (copy.M - 1)

\* --- the constructors ----------------------------------------------------

\* lhs is the matrix a constructor may copy from; the other arguments are
\* chosen by the call and kept in rhs
InitConstruct ==
    /\ \E I \in 1..MaxDim, J \in 1..MaxDim, seed \in 0..MaxSeed :
           lhs = Gen(I, J, seed)
    /\ rhs = <<>>
    /\ res = <<>> /\ op = "none" /\ fault = "none" /\ oob = FALSE
    /\ ndebug = FALSE
    /\ TransformIdle

\* Matrix<T, lhs.N - 1, lhs.M - 1>( lhs, i, j )
Construct_Submatrix ==
    /\ op = "none"
    /\ lhs.N > 1 /\ lhs.M > 1
    /\ \E i \in 0..MaxDim, j \in 0..MaxDim :
           /\ rhs' = [i |-> i, j |-> j]
           /\ res' = Matrix_submatrix(lhs, i, j)
           /\ oob' = Matrix_submatrix_oob(lhs, i, j)
    /\ op' = "Matrix( copy, i, j )"
    /\ UNCHANGED <<lhs, fault, ndebug>>
    /\ UNCHANGED tvars

\* Matrix<T, N, M>( lhs )
Construct_Convert ==
    /\ op = "none"
    /\ \E N \in 1..MaxDim, M \in 1..MaxDim :
           /\ rhs' = [N |-> N, M |-> M]
           /\ res' = Matrix_convert(N, M, lhs)
    /\ op' = "Matrix( copy )"
    /\ UNCHANGED <<lhs, fault, oob, ndebug>>
    /\ UNCHANGED tvars

\* Matrix<T, N, M>( s )
Construct_Scalar ==
    /\ op = "none"
    /\ \E N \in 1..MaxDim, M \in 1..MaxDim, s \in Scalars :
           /\ rhs' = [N |-> N, M |-> M, s |-> s]
           /\ res' = Matrix_scalar(N, M, s)
    /\ op' = "Matrix( s )"
    /\ UNCHANGED <<lhs, fault, oob, ndebug>>
    /\ UNCHANGED tvars

\* Matrix<T, N, M>::diagonal( s )
Construct_Diagonal ==
    /\ op = "none"
    /\ \E N \in 1..MaxDim, M \in 1..MaxDim, s \in Scalars :
           /\ rhs' = [N |-> N, M |-> M, s |-> s]
           /\ res' = diagonal(N, M, s)
    /\ op' = "diagonal"
    /\ UNCHANGED <<lhs, fault, oob, ndebug>>
    /\ UNCHANGED tvars

\* Matrix<T, N, M>::IDENTITY
Construct_Identity ==
    /\ op = "none"
    /\ \E N \in 1..MaxDim, M \in 1..MaxDim :
           /\ rhs' = [N |-> N, M |-> M, s |-> T(1)]
           /\ res' = IDENTITY(N, M)
    /\ op' = "IDENTITY"
    /\ UNCHANGED <<lhs, fault, oob, ndebug>>
    /\ UNCHANGED tvars

NextConstruct ==
    \/ Construct_Submatrix
    \/ Construct_Convert
    \/ Construct_Scalar
    \/ Construct_Diagonal
    \/ Construct_Identity

SpecConstruct == InitConstruct /\ [][NextConstruct]_vars

---------------------------------------------------------------------------
(* Vector<T, N>: construction, assignment, comparison, and the product of  *)
(* a Matrix with a Vector.                                                 *)

\* VectorBase(): vec {}
Vector_default(N) == [i \in 1..N |-> T(0)]

\* Matrix * Vector reading m as if it were stored column by column:
\* res.vec[i] += m[j * N + i] * rhs.vec[j]
Matrix_operatorMulVector_columnMajor(A, v) ==
    [i \in 1..A.N |->
        Sum([j \in 1..A.M |-> TMul(A.m[(j - 1) * A.N + (i - 1) + 1], v[j])])]

\* Matrix::operator*( const Vector<T, M>& rhs ): for i < N, j < M
\*     res.vec[i] += m[i * M + j] * rhs.vec[j]
\* starting from the zeros of Vector()
Matrix_operatorMulVector(A, v) ==
    [i \in 1..A.N |->
        Sum([j \in 1..A.M |-> TMul(A.m[(i - 1) * A.M + (j - 1) + 1], v[j])])]

\* the fold over args that never advances i: every argument lands in vec[c]
Vector_copyArgs_sameSlot(N, copy, args) ==
    LET c == Min(N, Len(copy))
    IN  [k \in 1..N |->
            IF k <= c THEN copy[k]
            ELSE IF k = c + 1 /\ Len(args) > 0 THEN args[Len(args)]
                 ELSE T(0)]

RECURSIVE Vector_unfold(_, _, _)
\* ( ( ( i < N ) ? vec[i++] = args : false ), ... ): the arguments in order,
\* vec being 1-based here and i the number of slots filled so far
Vector_unfold(vec, i, args) ==
    IF args = <<>> THEN vec
    ELSE IF i < Len(vec)
         THEN Vector_unfold([vec EXCEPT ![i + 1] = Head(args)], i + 1, Tail(args))
         ELSE Vector_unfold(vec, i, Tail(args))

\* Vector<T, N>( const Vector<U, M>& copy, const Args&... args )
Vector_copyArgs(N, copy, args) ==
    LET c == Min(N, Len(copy))
        copied == [k \in 1..N |-> IF k <= c THEN copy[k] ELSE Vector_default(N)[k]]
    IN  Vector_unfold(copied, c, args)

\* Vector<T, N>::operator=( const Vector<U, M>& v ) on the vector this
Vector_operatorAssign(this, v) ==
    LET c == Min(Len(this), Len(v))
    IN  [k \in 1..Len(this) |-> IF k <= c THEN v[k] ELSE this[k]]

\* x <=> y on T: a NaN is unordered
TCompare(x, y) ==
    IF x = <<0, 0>> \/ y = <<0, 0>> THEN "unordered"
    ELSE IF x[1] * y[2] < y[1] * x[2] THEN "less"
    ELSE IF x[1] * y[2] > y[1] * x[2] THEN "greater"
    ELSE "equivalent"

\* operator<=> that looks at the first component only
Vector_operatorSpaceship_firstOnly(a, b) == TCompare(a[1], b[1])

RECURSIVE Vector_spaceshipLoop(_, _, _, _)
\* for ( i = 1; i < N && res == 0; ++i ) res = vec[i] <=> rhs.vec[i]
Vector_spaceshipLoop(a, b, i, r) ==
    IF i < Len(a) /\ r = "equivalent"
    THEN Vector_spaceshipLoop(a, b, i + 1, TCompare(a[i + 1], b[i + 1]))
    ELSE r

\* Vector::operator<=>( const Vector<T, N>& rhs )
Vector_operatorSpaceship(a, b) == Vector_spaceshipLoop(a, b, 1, TCompare(a[1], b[1]))

RECURSIVE Vector_equalLoop(_, _, _, _)
\* for ( i = 1; i < N && res; ++i ) res = vec[i] == rhs.vec[i]
Vector_equalLoop(a, b, i, r) ==
    IF i < Len(a) /\ r
    THEN Vector_equalLoop(a, b, i + 1, TCompare(a[i + 1], b[i + 1]) = "equivalent")
    ELSE r

\* Vector::operator==( const Vector<T, N>& rhs )
Vector_operatorEq(a, b) == Vector_equalLoop(a, b, 1, TCompare(a[1], b[1]) = "equivalent")

\* --- the Vector functions -------------------------------------------------

\* the extra arguments of the Vector constructor: none, one, two or three
ArgLists == {<<>>, <<T(7)>>, <<T(7), Q(-1, 2)>>, <<T(7), Q(-1, 2), T(4)>>}

\* lhs holds a matrix, a vector with as many components as the matrix has
\* rows, and a list of extra arguments; rhs is a vector
InitVector ==
    /\ \E N \in 1..MaxDim, M \in 1..MaxDim, sa \in 0..MaxSeed :
       \E args \in ArgLists :
           lhs = [matrix |-> Gen(N, M, sa), vector |-> GenVector(N, sa), args |-> args]
    /\ \E L \in 1..MaxDim, sb \in 0..MaxSeed : rhs = GenVector(L, sb)
    /\ res = <<>> /\ op = "none" /\ fault = "none" /\ oob = FALSE
    /\ ndebug = FALSE
    /\ TransformIdle

\* lhs.matrix * rhs, which compiles when rhs has as many components as the
\* matrix has columns
Matrix_MulVector ==
    /\ op = "none"
    /\ Len(rhs) = lhs.matrix.M
    /\ res' = Matrix_operatorMulVector(lhs.matrix, rhs)
    /\ op' = "Matrix::operator*( Vector )"
    /\ UNCHANGED <<lhs, rhs, fault, oob, ndebug>>
    /\ UNCHANGED tvars

\* Vector<T, N>( rhs, lhs.args... ) with N the size of lhs.vector
Vector_Construct ==
    /\ op = "none"
    /\ res' = Vector_copyArgs(Len(lhs.vector), rhs, lhs.args)
    /\ op' = "Vector( copy, args )"
    /\ UNCHANGED <<lhs, rhs, fault, oob, ndebug>>
    /\ UNCHANGED tvars

\* lhs.vector = rhs
Vector_Assign ==
    /\ op = "none"
    /\ res' = Vector_operatorAssign(lhs.vector, rhs)
    /\ op' = "Vector::operator="
    /\ UNCHANGED <<lhs, rhs, fault, oob, ndebug>>
    /\ UNCHANGED tvars

\* lhs.vector <=> rhs, which compiles for vectors of one size
Vector_Compare ==
    /\ op = "none"
    /\ Len(lhs.vector) = Len(rhs)
    /\ res' = Vector_operatorSpaceship(lhs.vector, rhs)
    /\ op' = "Vector::operator<=>"
    /\ UNCHANGED <<lhs, rhs, fault, oob, ndebug>>
    /\ UNCHANGED tvars

\* lhs.vector == rhs
Vector_Equal ==
    /\ op = "none"
    /\ Len(lhs.vector) = Len(rhs)
    /\ res' = Vector_operatorEq(lhs.vector, rhs)
    /\ op' = "Vector::operator=="
    /\ UNCHANGED <<lhs, rhs, fault, oob, ndebug>>
    /\ UNCHANGED tvars

NextVector ==
    \/ Matrix_MulVector
    \/ Vector_Construct
    \/ Vector_Assign
    \/ Vector_Compare
    \/ Vector_Equal

SpecVector == InitVector /\ [][NextVector]_vars

---------------------------------------------------------------------------
(* Quaternion<T>: negation, products, conjugate.                           *)

\* Quaternion::operator-(): { w, -x, -y, -z }
Quaternion_operatorNeg(q) ==
    [w |-> q.w, x |-> TNeg(q.x), y |-> TNeg(q.y), z |-> TNeg(q.z)]

\* Quaternion::operator*( const Quaternion<U>& rhs ) with q2 { rhs }
Quaternion_operatorMul(this, q2) ==
    [w |-> TSub(TSub(TSub(TMul(this.w, q2.w), TMul(this.x, q2.x)),
                     TMul(this.y, q2.y)), TMul(this.z, q2.z)),
     x |-> TSub(TAdd(TAdd(TMul(this.w, q2.x), TMul(this.x, q2.w)),
                     TMul(this.y, q2.z)), TMul(this.z, q2.y)),
     y |-> TAdd(TAdd(TSub(TMul(this.w, q2.y), TMul(this.x, q2.z)),
                     TMul(this.y, q2.w)), TMul(this.z, q2.x)),
     z |-> TAdd(TSub(TAdd(TMul(this.w, q2.z), TMul(this.x, q2.y)),
                     TMul(this.y, q2.x)), TMul(this.z, q2.w))]

\* operator*= without the copy q1 { *this }: each member is assigned from
\* the members as they are at that moment
Quaternion_operatorMulAssign_inPlace(this, q2) ==
    LET w == TSub(TSub(TSub(TMul(this.w, q2.w), TMul(this.x, q2.x)),
                       TMul(this.y, q2.y)), TMul(this.z, q2.z))
        x == TSub(TAdd(TAdd(TMul(w, q2.x), TMul(this.x, q2.w)),
                       TMul(this.y, q2.z)), TMul(this.z, q2.y))
        y == TAdd(TAdd(TSub(TMul(w, q2.y), TMul(x, q2.z)),
                       TMul(this.y, q2.w)), TMul(this.z, q2.x))
        z == TAdd(TSub(TAdd(TMul(w, q2.z), TMul(x, q2.y)),
                       TMul(y, q2.x)), TMul(this.z, q2.w))
    IN  [w |-> w, x |-> x, y |-> y, z |-> z]

\* Quaternion::operator*=( const Quaternion<U>& rhs ) with q1 { *this } and
\* q2 { rhs }: the value of *this afterwards
Quaternion_operatorMulAssign(this, q2) ==
    LET q1 == this
    IN  [w |-> TSub(TSub(TSub(TMul(q1.w, q2.w), TMul(q1.x, q2.x)),
                         TMul(q1.y, q2.y)), TMul(q1.z, q2.z)),
         x |-> TSub(TAdd(TAdd(TMul(q1.w, q2.x), TMul(q1.x, q2.w)),
                         TMul(q1.y, q2.z)), TMul(q1.z, q2.y)),
         y |-> TAdd(TAdd(TSub(TMul(q1.w, q2.y), TMul(q1.x, q2.z)),
                         TMul(q1.y, q2.w)), TMul(q1.z, q2.x)),
         z |-> TAdd(TSub(TAdd(TMul(q1.w, q2.z), TMul(q1.x, q2.y)),
                         TMul(q1.y, q2.x)), TMul(q1.z, q2.w))]

\* dot( q1, q2 )
Quaternion_dot(q1, q2) ==
    TAdd(TAdd(TAdd(TMul(q1.w, q2.w), TMul(q1.x, q2.x)), TMul(q1.y, q2.y)),
         TMul(q1.z, q2.z))

\* cross( q1, q2 )
Quaternion_cross(q1, q2) ==
    [w |-> TSub(TSub(TSub(TMul(q1.w, q2.w), TMul(q1.x, q2.x)),
                     TMul(q1.y, q2.y)), TMul(q1.z, q2.z)),
     x |-> TSub(TAdd(TAdd(TMul(q1.w, q2.x), TMul(q1.x, q2.w)),
                     TMul(q1.y, q2.z)), TMul(q1.z, q2.y)),
     y |-> TAdd(TAdd(TSub(TMul(q1.w, q2.y), TMul(q1.x, q2.z)),
                     TMul(q1.y, q2.w)), TMul(q1.z, q2.x)),
     z |-> TAdd(TSub(TAdd(TMul(q1.w, q2.z), TMul(q1.x, q2.y)),
                     TMul(q1.y, q2.x)), TMul(q1.z, q2.w))]

\* conjugate that hands back its argument
Quaternion_conjugate_unchanged(q) == q

\* conjugate( q ): { q.w, -q.x, -q.y, -q.z }
Quaternion_conjugate(q) ==
    [w |-> q.w, x |-> TNeg(q.x), y |-> TNeg(q.y), z |-> TNeg(q.z)]

\* --- the Quaternion functions ---------------------------------------------

\* the operands: the sample quaternions and the rotations passed to Transform,
\* which have length 1
QuaternionOperands ==
    {GenQuaternion(seed) : seed \in 0..MaxSeed}
        \cup {QuaternionSamples[n] : n \in 1..Len(QuaternionSamples)}

InitQuaternion ==
    /\ lhs \in QuaternionOperands
    /\ rhs \in QuaternionOperands
    /\ res = <<>> /\ op = "none" /\ fault = "none" /\ oob = FALSE
    /\ ndebug = FALSE
    /\ TransformIdle

\* lhs * rhs
Quaternion_Mul ==
    /\ op = "none"
    /\ res' = Quaternion_operatorMul(lhs, rhs)
    /\ op' = "Quaternion::operator*"
    /\ UNCHANGED <<lhs, rhs, fault, oob, ndebug>>
    /\ UNCHANGED tvars

\* q = lhs; q *= rhs
Quaternion_MulAssign ==
    /\ op = "none"
    /\ res' = Quaternion_operatorMulAssign(lhs, rhs)
    /\ op' = "Quaternion::operator*="
    /\ UNCHANGED <<lhs, rhs, fault, oob, ndebug>>
    /\ UNCHANGED tvars

\* cross( lhs, rhs )
Quaternion_Cross ==
    /\ op = "none"
    /\ res' = Quaternion_cross(lhs, rhs)
    /\ op' = "cross"
    /\ UNCHANGED <<lhs, rhs, fault, oob, ndebug>>
    /\ UNCHANGED tvars

\* -lhs
Quaternion_Neg ==
    /\ op = "none"
    /\ res' = Quaternion_operatorNeg(lhs)
    /\ op' = "Quaternion::operator-"
    /\ UNCHANGED <<lhs, rhs, fault, oob, ndebug>>
    /\ UNCHANGED tvars

\* lhs * conjugate( lhs )
Quaternion_MulConjugate ==
    /\ op = "none"
    /\ res' = Quaternion_operatorMul(lhs, Quaternion_conjugate(lhs))
    /\ op' = "q * conjugate( q )"
    /\ UNCHANGED <<lhs, rhs, fault, oob, ndebug>>
    /\ UNCHANGED tvars

NextQuaternion ==
    \/ Quaternion_Mul
    \/ Quaternion_MulAssign
    \/ Quaternion_Cross
    \/ Quaternion_Neg
    \/ Quaternion_MulConjugate

SpecQuaternion == InitQuaternion /\ [][NextQuaternion]_vars

---------------------------------------------------------------------------
(* Interpolation of quaternions.                                           *)

\* EPSILON<float>: std::numeric_limits<float>::epsilon(), 2^-23
EPSILON == Q(1, 8388608)

\* x < y and x <= y on T; a comparison with a NaN is false
TLess(x, y) ==
    /\ x # <<0, 0>> /\ y # <<0, 0>>
    /\ IF x[2] = 0 \/ y[2] = 0
       THEN (IF x[2] = 0 /\ y[2] = 0 THEN x[1] < y[1]
             ELSE IF x[2] = 0 THEN x[1] < 0 ELSE y[1] > 0)
       ELSE x[1] * y[2] < y[1] * x[2]
TLessEq(x, y) == x # <<0, 0>> /\ y # <<0, 0>> /\ ~TLess(y, x)

\* std::abs on T
TAbs(x) == <<Abs(x[1]), x[2]>>

\* std::sqrt( x ) for x >= 0, rounded up to a multiple of 1/16; the square
\* root of zero is zero
Sqrt16(x) == Q(CHOOSE k \in 0..(16 * ((x[1] \div x[2]) + 1)) :
                   /\ k * k * x[2] >= 256 * x[1]
                   /\ \A n \in 0..(k - 1) : n * n * x[2] < 256 * x[1],
               16)

\* std::sin( t * std::acos( c ) ) for t = 0, 1/2 and 1: 0, the half-angle
\* value sqrt( ( 1 - c ) / 2 ) and sqrt( 1 - c * c ); std::acos of a value
\* outside [-1, 1] is a NaN
SinTimesAcos(t, c) ==
    IF TLess(c, T(-1)) \/ TLess(T(1), c) \/ c = <<0, 0>> THEN <<0, 0>>
    ELSE IF t = T(0) THEN T(0)
    ELSE IF t = T(1) THEN Sqrt16(TSub(T(1), TMul(c, c)))
    ELSE Sqrt16(TMul(TSub(T(1), c), Q(1, 2)))

\* Quaternion::operator+( const Quaternion<U>& rhs )
Quaternion_operatorAdd(this, q) ==
    [w |-> TAdd(this.w, q.w), x |-> TAdd(this.x, q.x),
     y |-> TAdd(this.y, q.y), z |-> TAdd(this.z, q.z)]

\* lerp with the two weights exchanged: q0 * t + q1 * ( 1 - t )
Quaternion_lerp_exchanged(q0, q1, t, nd) ==
    Returned(Quaternion_operatorAdd(
                 Quaternion_operatorMulScalar(q0, t),
                 Quaternion_operatorMulScalar(q1, TSub(T(1), t))))

\* lerp( q0, q1, t ) in a build with NDEBUG set (nd) or not
Quaternion_lerp(q0, q1, t, nd) ==
    IF ~nd /\ ~TLessEq(T(0), t) THEN Aborted
    ELSE IF ~nd /\ ~TLessEq(t, T(1)) THEN Aborted
    ELSE Returned(Quaternion_operatorAdd(
                      Quaternion_operatorMulScalar(q0, TSub(T(1), t)),
                      Quaternion_operatorMulScalar(q1, t)))

\* slerp( q0, q1, t ) for t = 0, 1/2 and 1
Quaternion_slerp(q0, q1, t, nd) ==
    LET c0 == Quaternion_dot(q0, q1)
    IN  IF TLess(TSub(T(1), EPSILON), c0) THEN Quaternion_lerp(q0, q1, t, nd)
        ELSE LET q == IF TLess(c0, T(0)) THEN Quaternion_operatorNeg(q1) ELSE q1
                 c == IF TLess(c0, T(0)) THEN TNeg(c0) ELSE c0
             IN  Quaternion_operatorDiv(
                     Quaternion_operatorAdd(
                         Quaternion_operatorMulScalar(q0, SinTimesAcos(TSub(T(1), t), c)),
                         Quaternion_operatorMulScalar(q, SinTimesAcos(t, c))),
                     SinTimesAcos(T(1), c), nd)

\* --- lerp and slerp --------------------------------------------------------

\* the interpolation factors
Factors == {T(0), Q(1, 2), T(1)}

\* lhs holds the two quaternions, rhs the factor t
InitInterpolate ==
    /\ \E q0 \in QuaternionOperands, q1 \in QuaternionOperands :
           lhs = [q0 |-> q0, q1 |-> q1]
    /\ rhs \in Factors
    /\ res = <<>> /\ op = "none" /\ fault = "none" /\ oob = FALSE
    /\ ndebug \in BOOLEAN
    /\ TransformIdle

\* lerp( lhs.q0, lhs.q1, rhs )
Quaternion_Lerp ==
    /\ op = "none"
    /\ LET r == Quaternion_lerp(lhs.q0, lhs.q1, rhs, ndebug)
       IN  res' = r.value /\ fault' = r.fault
    /\ op' = "lerp"
    /\ UNCHANGED <<lhs, rhs, oob, ndebug>>
    /\ UNCHANGED tvars

\* slerp( lhs.q0, lhs.q1, rhs )
Quaternion_Slerp ==
    /\ op = "none"
    /\ LET r == Quaternion_slerp(lhs.q0, lhs.q1, rhs, ndebug)
       IN  res' = r.value /\ fault' = r.fault
    /\ op' = "slerp"
    /\ UNCHANGED <<lhs, rhs, oob, ndebug>>
    /\ UNCHANGED tvars

NextInterpolate ==
    \/ Quaternion_Lerp
    \/ Quaternion_Slerp

SpecInterpolate == InitInterpolate /\ [][NextInterpolate]_vars

---------------------------------------------------------------------------
(* normalize.                                                              *)

\* Vector_Dot<T, N>::dot( a, b )
Vector_dot(a, b) == Sum([i \in 1..Len(a) |-> TMul(a[i], b[i])])

\* Vector_Length<T, N>::length( v )
Vector_length(v) == Sqrt16(Vector_dot(v, v))

\* normalize without the test on the length: v / l
Vector_normalize_unguarded(v, nd) == Vector_operatorDiv(v, Vector_length(v), nd)

\* Vector_Normalize<T, N>::normalize( v )
Vector_normalize(v, nd) ==
    LET l == Vector_length(v)
    IN  IF TLess(T(0), l) THEN Vector_operatorDiv(v, l, nd) ELSE Returned(v)

\* length( q ) of a quaternion
Quaternion_length(q) == Sqrt16(Quaternion_dot(q, q))

\* normalize( q ) of a quaternion
Quaternion_normalize(q, nd) ==
    LET l == Quaternion_length(q)
    IN  IF TLess(T(0), l) THEN Quaternion_operatorDiv(q, l, nd)
        ELSE Returned(Quaternion_IDENTITY)

\* the operands of normalize: sample number seed, and the zero vector and
\* the zero quaternion as sample number MaxSeed + 1
NormalizeVector(N, seed) ==
    IF seed > MaxSeed THEN [k \in 1..N |-> T(0)] ELSE GenVector(N, seed)
NormalizeQuaternion(seed) ==
    IF seed > MaxSeed THEN [w |-> T(0), x |-> T(0), y |-> T(0), z |-> T(0)]
    ELSE GenQuaternion(seed)

InitNormalize ==
    /\ \E N \in 1..(MaxDim + 1), seed \in 0..(MaxSeed + 1) :
           lhs = [vector |-> NormalizeVector(N, seed),
                  quaternion |-> NormalizeQuaternion(seed)]
    /\ rhs = <<>>
    /\ res = <<>> /\ op = "none" /\ fault = "none" /\ oob = FALSE
    /\ ndebug \in BOOLEAN
    /\ TransformIdle

\* normalize( lhs.vector )
Vector_Normalize ==
    /\ op = "none"
    /\ LET r == Vector_normalize(lhs.vector, ndebug)
       IN  res' = r.value /\ fault' = r.fault
    /\ op' = "normalize( Vector )"
    /\ UNCHANGED <<lhs, rhs, oob, ndebug>>
    /\ UNCHANGED tvars

\* normalize( lhs.quaternion )
Quaternion_Normalize ==
    /\ op = "none"
    /\ LET r == Quaternion_normalize(lhs.quaternion, ndebug)
       IN  res' = r.value /\ fault' = r.fault
    /\ op' = "normalize( Quaternion )"
    /\ UNCHANGED <<lhs, rhs, oob, ndebug>>
    /\ UNCHANGED tvars

NextNormalize ==
    \/ Vector_Normalize
    \/ Quaternion_Normalize

SpecNormalize == InitNormalize /\ [][NextNormalize]_vars

---------------------------------------------------------------------------
(* swizzle.                                                                *)

\* Vector<T, N>( x, y ), ( x, y, z ) and ( x, y, z, w ): component k is set
\* from argument k "if constexpr ( N > k )", over the zeros of vec {}
Vector_fromComponents(N, args) ==
    [k \in 1..N |-> IF k <= Len(args) THEN args[k] ELSE T(0)]

\* v.vec[X]; a read past the end of vec yields whatever the memory holds, g
Vector_read(v, X, g) == IF X < Len(v) THEN v[X + 1] ELSE g

\* swizzle( v, X, Y ) in a build with NDEBUG set (nd) or not
swizzle2(v, X, Y, nd, g) ==
    IF ~nd /\ (~(X < Len(v)) \/ ~(Y < Len(v))) THEN Aborted
    ELSE Returned(Vector_fromComponents(2,
                      <<Vector_read(v, X, g), Vector_read(v, Y, g)>>))

\* swizzle( v, X, Y, Z )
swizzle3(v, X, Y, Z, nd, g) ==
    IF ~nd /\ (~(X < Len(v)) \/ ~(Y < Len(v)) \/ ~(Z < Len(v))) THEN Aborted
    ELSE Returned(Vector_fromComponents(3,
                      <<Vector_read(v, X, g), Vector_read(v, Y, g),
                        Vector_read(v, Z, g)>>))

\* swizzle( v, X, Y, Z, W ), whose return type is Vector<T, 3>
swizzle4(v, X, Y, Z, W, nd, g) ==
    IF ~nd /\ (~(X < Len(v)) \/ ~(Y < Len(v)) \/ ~(Z < Len(v)) \/ ~(W < Len(v)))
    THEN Aborted
    ELSE Returned(Vector_fromComponents(3,
                      <<Vector_read(v, X, g), Vector_read(v, Y, g),
                        Vector_read(v, Z, g), Vector_read(v, W, g)>>))

\* lhs is the vector; the indices are chosen by the call and kept in rhs
InitSwizzle ==
    /\ \E N \in 1..(MaxDim + 1), seed \in 0..MaxSeed : lhs = GenVector(N, seed)
    /\ rhs = <<>>
    /\ res = <<>> /\ op = "none" /\ fault = "none" /\ oob = FALSE
    /\ ndebug \in BOOLEAN
    /\ TransformIdle

\* swizzle( lhs, X, Y ); an index may be N, one past the last component
Swizzle2 ==
    /\ op = "none"
    /\ \E X \in 0..Len(lhs), Y \in 0..Len(lhs), g \in Garbage :
           LET r == swizzle2(lhs, X, Y, ndebug, g)
           IN  /\ rhs' = <<X, Y>>
               /\ res' = r.value /\ fault' = r.fault
               /\ oob' = (r.fault = "none" /\ (X >= Len(lhs) \/ Y >= Len(lhs)))
    /\ op' = "swizzle2"
    /\ UNCHANGED <<lhs, ndebug>>
    /\ UNCHANGED tvars

\* swizzle( lhs, X, Y, Z )
Swizzle3 ==
    /\ op = "none"
    /\ \E X \in 0..Len(lhs), Y \in 0..Len(lhs), Z \in 0..Len(lhs), g \in Garbage :
           LET r == swizzle3(lhs, X, Y, Z, ndebug, g)
           IN  /\ rhs' = <<X, Y, Z>>
               /\ res' = r.value /\ fault' = r.fault
               /\ oob' = (r.fault = "none" /\ \E i \in {X, Y, Z} : i >= Len(lhs))
    /\ op' = "swizzle3"
    /\ UNCHANGED <<lhs, ndebug>>
    /\ UNCHANGED tvars

\* swizzle( lhs, X, Y, Z, W )
Swizzle4 ==
    /\ op = "none"
    /\ \E X \in 0..Len(lhs), Y \in 0..Len(lhs), Z \in 0..Len(lhs),
          W \in 0..Len(lhs), g \in Garbage :
           LET r == swizzle4(lhs, X, Y, Z, W, ndebug, g)
           IN  /\ rhs' = <<X, Y, Z, W>>
               /\ res' = r.value /\ fault' = r.fault
               /\ oob' = (r.fault = "none" /\ \E i \in {X, Y, Z, W} : i >= Len(lhs))
    /\ op' = "swizzle4"
    /\ UNCHANGED <<lhs, ndebug>>
    /\ UNCHANGED tvars

NextSwizzle ==
    \/ Swizzle2
    \/ Swizzle3
    \/ Swizzle4

SpecSwizzle == InitSwizzle /\ [][NextSwizzle]_vars

---------------------------------------------------------------------------
(* The comparison with a tolerance, equal( a, b, epsilon ).                *)

\* Vector::operator-( const Vector<T, N>& rhs )
Vector_operatorSub(a, b) == [i \in 1..Len(a) |-> TSub(a[i], b[i])]

\* abs( v )
Vector_abs(v) == [i \in 1..Len(v) |-> TAbs(v[i])]

\* lessThanEqual( a, b )
lessThanEqual(a, b) == [i \in 1..Len(a) |-> TLessEq(a[i], b[i])]

\* all( v )
Vector_all(v) == \A i \in 1..Len(v) : v[i]

\* equal( a, b, epsilon ) of vectors
Vector_equal(a, b, epsilon) == lessThanEqual(Vector_abs(Vector_operatorSub(a, b)), epsilon)

\* Quaternion::operator[]: quat[0..3] are w, x, y, z
Quaternion_quat(q) == <<q.w, q.x, q.y, q.z>>

\* equal( a, b, epsilon ) of quaternions: res[i] = std::abs( a[i] - b[i] ) <
\* epsilon[i]
Quaternion_equal(a, b, epsilon) ==
    [i \in 1..4 |->
        TLess(TAbs(TSub(Quaternion_quat(a)[i], Quaternion_quat(b)[i])), epsilon[i])]

\* the tolerances: Vector<T, 4>::ZERO, the default; the same value in every
\* component; a different value in every component
Tolerances ==
    {<<T(0), T(0), T(0), T(0)>>, <<Q(1, 2), Q(1, 2), Q(1, 2), Q(1, 2)>>,
     <<T(1), T(1), T(1), T(1)>>, <<T(0), Q(1, 2), T(1), T(2)>>}

\* lhs holds a, rhs holds b and epsilon; the vectors use the first N
\* components of epsilon
InitEqual ==
    /\ \E N \in 1..(MaxDim + 1), sa \in 0..MaxSeed, sb \in 0..MaxSeed :
       \E epsilon \in Tolerances :
           /\ lhs = [vector |-> GenVector(N, sa), quaternion |-> GenQuaternion(sa)]
           /\ rhs = [vector |-> GenVector(N, sb), quaternion |-> GenQuaternion(sb),
                     epsilon |-> epsilon]
    /\ res = <<>> /\ op = "none" /\ fault = "none" /\ oob = FALSE
    /\ ndebug = FALSE
    /\ TransformIdle

\* equal( lhs.vector, rhs.vector, epsilon )
Vector_EqualTolerance ==
    /\ op = "none"
    /\ res' = Vector_equal(lhs.vector, rhs.vector,
                           SubSeq(rhs.epsilon, 1, Len(lhs.vector)))
    /\ op' = "equal( Vector )"
    /\ UNCHANGED <<lhs, rhs, fault, oob, ndebug>>
    /\ UNCHANGED tvars

\* equal( lhs.quaternion, rhs.quaternion, epsilon )
Quaternion_EqualTolerance ==
    /\ op = "none"
    /\ res' = Quaternion_equal(lhs.quaternion, rhs.quaternion, rhs.epsilon)
    /\ op' = "equal( Quaternion )"
    /\ UNCHANGED <<lhs, rhs, fault, oob, ndebug>>
    /\ UNCHANGED tvars

NextEqual ==
    \/ Vector_EqualTolerance
    \/ Quaternion_EqualTolerance

SpecEqual == InitEqual /\ [][NextEqual]_vars

---------------------------------------------------------------------------
(* Unsigned integers of a fixed width, as the sequence of their bits: bit  *)
(* i of the value is element i + 1, bit 0 being the least significant.     *)
(* Arithmetic is modulo 2^width, as for uint8_t, uint32_t, uint64_t and    *)
(* std::size_t.                                                            *)

\* the word of width W whose set bits are the positions in S
Word(S, W) == [i \in 1..W |-> IF (i - 1) \in S THEN 1 ELSE 0]

\* v >> s
Shr(v, s) == [i \in 1..Len(v) |-> IF i + s <= Len(v) THEN v[i + s] ELSE 0]

\* a | b, a & b, ~a
BitOr(a, b) == [i \in 1..Len(a) |-> IF a[i] = 1 \/ b[i] = 1 THEN 1 ELSE 0]
BitAnd(a, b) == [i \in 1..Len(a) |-> IF a[i] = 1 /\ b[i] = 1 THEN 1 ELSE 0]
BitNot(a) == [i \in 1..Len(a) |-> 1 - a[i]]

\* v - 1 (v--): the borrow runs up to the lowest set bit; 0 wraps to all ones
Dec(v) ==
    LET set == {i \in 1..Len(v) : v[i] = 1}
        p == IF set = {} THEN Len(v) + 1 ELSE CHOOSE i \in set : \A k \in set : i <= k
    IN  [i \in 1..Len(v) |-> IF i < p THEN 1 ELSE IF i = p THEN 0 ELSE v[i]]

\* v + 1 (v++): the carry runs up to the lowest clear bit; all ones wraps to 0
Inc(v) ==
    LET clear == {i \in 1..Len(v) : v[i] = 0}
        p == IF clear = {} THEN Len(v) + 1
             ELSE CHOOSE i \in clear : \A k \in clear : i <= k
    IN  [i \in 1..Len(v) |-> IF i < p THEN 0 ELSE IF i = p THEN 1 ELSE v[i]]

RECURSIVE AddCarry(_, _, _, _)
\* the bits of a + b from bit i on, with the carry c into bit i
AddCarry(a, b, i, c) ==
    IF i > Len(a) THEN <<>>
    ELSE LET s == a[i] + b[i] + c
         IN  <<s % 2>> \o AddCarry(a, b, i + 1, s \div 2)

\* a + b
Add(a, b) == AddCarry(a, b, 1, 0)

\* static_cast to an unsigned type of W bits: truncation or zero extension
Cast(v, W) == [i \in 1..W |-> IF i <= Len(v) THEN v[i] ELSE 0]

\* nextHighestPow2 that skips the decrement
nextHighestPow2_32_noDecrement(v) ==
    LET v1 == BitOr(v, Shr(v, 1))
        v2 == BitOr(v1, Shr(v1, 2))
        v3 == BitOr(v2, Shr(v2, 4))
        v4 == BitOr(v3, Shr(v3, 8))
        v5 == BitOr(v4, Shr(v4, 16))
    IN  Inc(v5)

\* nextHighestPow2( uint32_t v )
nextHighestPow2_32(v) ==
    LET v0 == Dec(v)
        v1 == BitOr(v0, Shr(v0, 1))
        v2 == BitOr(v1, Shr(v1, 2))
        v3 == BitOr(v2, Shr(v2, 4))
        v4 == BitOr(v3, Shr(v3, 8))
        v5 == BitOr(v4, Shr(v4, 16))
    IN  Inc(v5)

\* nextHighestPow2( uint64_t v )
nextHighestPow2_64(v) ==
    LET v0 == Dec(v)
        v1 == BitOr(v0, Shr(v0, 1))
        v2 == BitOr(v1, Shr(v1, 2))
        v3 == BitOr(v2, Shr(v2, 4))
        v4 == BitOr(v3, Shr(v3, 8))
        v5 == BitOr(v4, Shr(v4, 16))
        v6 == BitOr(v5, Shr(v5, 32))
    IN  Inc(v6)

\* the arguments of width W: 0, 2^k, 2^k + 2^j, and 2^(k+1) - 1
Arguments(W) ==
    {Word({}, W)}
        \cup {Word({k}, W) : k \in 0..(W - 1)}
        \cup {Word({k, j}, W) : k \in 0..(W - 1), j \in 0..(W - 1)}
        \cup {Word(0..k, W) : k \in 0..(W - 1)}

InitPow2 ==
    /\ lhs \in Arguments(32) \cup Arguments(64)
    /\ rhs = <<>>
    /\ res = <<>> /\ op = "none" /\ fault = "none" /\ oob = FALSE
    /\ ndebug = FALSE
    /\ TransformIdle

\* nextHighestPow2( lhs ) for a uint32_t
NextHighestPow2_32 ==
    /\ op = "none"
    /\ Len(lhs) = 32
    /\ res' = nextHighestPow2_32(lhs)
    /\ op' = "nextHighestPow2"
    /\ UNCHANGED <<lhs, rhs, fault, oob, ndebug>>
    /\ UNCHANGED tvars

\* nextHighestPow2( lhs ) for a uint64_t
NextHighestPow2_64 ==
    /\ op = "none"
    /\ Len(lhs) = 64
    /\ res' = nextHighestPow2_64(lhs)
    /\ op' = "nextHighestPow2"
    /\ UNCHANGED <<lhs, rhs, fault, oob, ndebug>>
    /\ UNCHANGED tvars

NextPow2 ==
    \/ NextHighestPow2_32
    \/ NextHighestPow2_64

SpecPow2 == InitPow2 /\ [][NextPow2]_vars

---------------------------------------------------------------------------
(* alignUp and isAligned, with T = uint8_t and a 64-bit std::size_t.       *)

\* alignUpWithMask that does not add the mask
alignUpWithMask_noAdd(value, mask) ==
    Cast(BitAnd(Cast(value, 64), BitNot(mask)), Len(value))

\* alignUpWithMask( T value, std::size_t mask )
alignUpWithMask(value, mask) ==
    Cast(BitAnd(Add(Cast(value, 64), mask), BitNot(mask)), Len(value))

\* alignUp( T value, std::size_t alignment )
alignUp(value, alignment) == alignUpWithMask(value, Dec(alignment))

\* isAligned( T value, std::size_t alignment )
isAligned(value, alignment) ==
    Word({}, 64) = BitAnd(Cast(value, 64), Dec(alignment))

\* the alignments: 0, the powers of two up to 256, and 3 and 6
Alignments ==
    {Word({}, 64), Word({0, 1}, 64), Word({1, 2}, 64)}
        \cup {Word({k}, 64) : k \in 0..8}

InitAlign ==
    /\ lhs \in [1..8 -> {0, 1}]
    /\ rhs \in Alignments
    /\ res = <<>> /\ op = "none" /\ fault = "none" /\ oob = FALSE
    /\ ndebug = FALSE
    /\ TransformIdle

\* res = alignUp( lhs, rhs )
AlignUp ==
    /\ op = "none"
    /\ res' = alignUp(lhs, rhs)
    /\ op' = "alignUp"
    /\ UNCHANGED <<lhs, rhs, fault, oob, ndebug>>
    /\ UNCHANGED tvars

\* isAligned( lhs, rhs ), or isAligned( res, rhs ) once alignUp has run
IsAligned ==
    /\ op \in {"none", "alignUp"}
    /\ res' = isAligned(IF op = "none" THEN lhs ELSE res, rhs)
    /\ op' = IF op = "none" THEN "isAligned" ELSE "isAlignedUp"
    /\ UNCHANGED <<lhs, rhs, fault, oob, ndebug>>
    /\ UNCHANGED tvars

NextAlign ==
    \/ AlignUp
    \/ IsAligned

SpecAlign == InitAlign /\ [][NextAlign]_vars

---------------------------------------------------------------------------
(* The two transpose algorithms on one square matrix: the in-place swaps   *)
(* into res, the element copy into rhs.                                    *)

InitTransposeSquare ==
    /\ \E N \in 1..MaxRank, seed \in 0..(2 * MaxSeed + 1) : lhs = Gen(N, N, seed)
    /\ rhs = <<>>
    /\ res = <<>> /\ op = "none" /\ fault = "none" /\ oob = FALSE
    /\ ndebug = FALSE
    /\ TransformIdle

\* res = Matrix_Transpose<T, N, N>::transpose( lhs )
Transpose_Swap ==
    /\ res = <<>>
    /\ res' = Matrix_Transpose_square(lhs)
    /\ op' = "transpose"
    /\ UNCHANGED <<lhs, rhs, fault, oob, ndebug>>
    /\ UNCHANGED tvars

\* rhs = the loops of Matrix_Transpose<T, N, M>::transpose on lhs
Transpose_Copy ==
    /\ rhs = <<>>
    /\ rhs' = Matrix_Transpose_generic(lhs)
    /\ op' = "transpose"
    /\ UNCHANGED <<lhs, res, fault, oob, ndebug>>
    /\ UNCHANGED tvars

NextTransposeSquare ==
    \/ Transpose_Swap
    \/ Transpose_Copy

SpecTransposeSquare == InitTransposeSquare /\ [][NextTransposeSquare]_vars

---------------------------------------------------------------------------
(* The adjugate of Matrix_Inverse<T, N, N> on integer matrices of rank 2   *)
(* and more, its product with the source matrix, and the determinant that  *)
(* inverse() takes from it.                                                *)

InitAdjugate ==
    /\ \/ \E N \in 2..MaxRank, seed \in 0..(MaxSeed + 1) : lhs = Gen(N, N, 2 * seed)
       \/ \E N \in 2..MaxRank : lhs \in {IDENTITY(N, N), Matrix_default(N, N)}
       \/ lhs \in {Test2x2, Test3x3Singular, Test3x3}
    /\ rhs = <<>>
    /\ res = <<>> /\ op = "none" /\ fault = "none" /\ oob = FALSE
    /\ ndebug = FALSE
    /\ TransformIdle

\* res = Matrix_Inverse<T, N, N>::adjugate( lhs )
Adjugate ==
    /\ op = "none"
    /\ res' = adjugate(lhs)
    /\ op' = "adjugate"
    /\ UNCHANGED <<lhs, rhs, fault, oob, ndebug>>
    /\ UNCHANGED tvars

\* lhs * adjugate( lhs ), on the adjugate that Adjugate left in res
TimesAdjugate ==
    /\ op = "adjugate"
    /\ rhs' = res
    /\ \E g \in Garbage : res' = Matrix_operatorMul(lhs, res, g)
    /\ oob' = Matrix_operatorMul_oob(lhs, res)
    /\ op' = "times adjugate"
    /\ UNCHANGED <<lhs, fault, ndebug>>
    /\ UNCHANGED tvars

\* the value of det in Matrix_Inverse<T, N, N>::inverse( lhs ) after its loop
Inverse_Det ==
    /\ op = "none"
    /\ res' = Matrix_Inverse_det(lhs)
    /\ op' = "inverse det"
    /\ UNCHANGED <<lhs, rhs, fault, oob, ndebug>>
    /\ UNCHANGED tvars

NextAdjugate ==
    \/ Adjugate
    \/ TimesAdjugate
    \/ Inverse_Det

SpecAdjugate == InitAdjugate /\ [][NextAdjugate]_vars

---------------------------------------------------------------------------
(* Claims about Transform, checked under SpecTransform.                    *)

Setters == {"setScale", "setTranslate", "setRotationOrigin", "setRotation"}

\* T(translate) * T(rotationOrigin) * R(rotation) * T(-rotationOrigin) * S(scale)
\* of the current fields, written out element by element: the upper-left
\* 3 x 3 block is R * diag(scale), the last column is
\* translate + rotationOrigin - R * rotationOrigin, the last row 0 0 0 1.
Composite ==
    LET R == toMat4(rotation)
        r(i, j) == R.m[(i - 1) * 4 + j]
        col(i) == TSub(TAdd(translate[i], rotationOrigin[i]),
                       Sum([j \in 1..3 |-> TMul(r(i, j), rotationOrigin[j])]))
    IN  [N |-> 4, M |-> 4,
         m |-> [k \in 1..16 |->
                  LET i == ((k - 1) \div 4) + 1
                      j == ((k - 1) % 4) + 1
                  IN  IF i = 4 THEN (IF j = 4 THEN T(1) ELSE T(0))
                      ELSE IF j = 4 THEN col(i)
                      ELSE TMul(r(i, j), scale[j])]]

\* C1: in every reachable state of a Transform the cached matrix equals the
\* composite of the current four fields if and only if the dirty flag is clear.
C1_CacheValidIffClean == (matrix = Composite) <=> ~isDirty

\* C2: getMatrix returns the composite matrix of the field values current at
\* the time of the call, however the Transform was constructed.
C2_GetMatrixReturnsComposite == (lastCall = "getMatrix") => (matrix = Composite)

\* C3: immediately after any setter the Transform is dirty, whether it was
\* clean or dirty before the call.
C3_SetterLeavesDirty == (lastCall \in Setters) => isDirty

\* a setter has run on a Transform that was already dirty
C3_Witness == lastCall \in Setters /\ wasDirty /\ isDirty

\* C4: getMatrix on a clean Transform rebuilds nothing and changes neither the
\* cached matrix, the four fields nor the dirty flag, so the composite is
\* recomputed at most once between two consecutive setter calls.
C4_CleanReadChangesNothing ==
    /\ [](rebuilds <= 1)
    /\ [][(lastCall' = "getMatrix" /\ ~isDirty) =>
            /\ UNCHANGED <<matrix, scale, translate, rotationOrigin, rotation, isDirty>>
            /\ rebuilds' = rebuilds]_vars

\* getMatrix was called on a clean Transform whose matrix had been rebuilt
\* since the last setter: a repeated read
C4_Witness == lastCall = "getMatrix" /\ ~wasDirty /\ ~isDirty /\ rebuilds = 1

\* C28: each setter stores exactly the value it is passed, which the matching
\* getter then returns, and changes nothing else but the dirty flag: the other
\* three fields and the cached matrix keep their values.
C28_SetterChangesOnlyItsField ==
    [][/\ (lastCall' = "setScale") =>
            /\ getScale' = lastArg'
            /\ UNCHANGED <<translate, rotationOrigin, rotation, matrix>>
       /\ (lastCall' = "setTranslate") =>
            /\ getTranslate' = lastArg'
            /\ UNCHANGED <<scale, rotationOrigin, rotation, matrix>>
       /\ (lastCall' = "setRotationOrigin") =>
            /\ getRotationOrigin' = lastArg'
            /\ UNCHANGED <<scale, translate, rotation, matrix>>
       /\ (lastCall' = "setRotation") =>
            /\ getRotation' = lastArg'
            /\ UNCHANGED <<scale, translate, rotationOrigin, matrix>>]_vars

\* setRotationOrigin ran on a clean Transform whose matrix had been rebuilt,
\* with a value other than the translation
C28_Witness ==
    /\ lastCall = "setRotationOrigin" /\ ~wasDirty
    /\ getRotationOrigin = lastArg
    /\ lastArg # translate
    /\ matrix # IDENTITY(4, 4)

---------------------------------------------------------------------------
(* Claims about the Matrix functions.  The reference definitions below     *)
(* work on a matrix as its sequence of rows, not on the flat array.        *)

\* row i, column j of A, both counted from 1
At(A, i, j) == A.m[(i - 1) * A.M + j]

\* A as the sequence of its rows
Rows(A) == [i \in 1..A.N |-> [j \in 1..A.M |-> At(A, i, j)]]

\* the N x P matrix whose element (i, j) is the sum over k of A[i][k] * B[k][j]
RefProduct(A, B) ==
    [N |-> A.N, M |-> B.M,
     m |-> [t \in 1..(A.N * B.M) |->
              LET i == ((t - 1) \div B.M) + 1
                  j == ((t - 1) % B.M) + 1
              IN  Sum([k \in 1..A.M |-> TMul(At(A, i, k), At(B, k, j))])]]

\* (-1)^(i+j)
RefSign(i, j) == IF (i + j) % 2 = 0 THEN T(1) ELSE T(-1)

\* R with row i and column j deleted
RefMinor(R, i, j) ==
    [r \in 1..(Len(R) - 1) |->
        LET row == R[IF r < i THEN r ELSE r + 1]
        IN  [k \in 1..(Len(row) - 1) |-> row[IF k < j THEN k ELSE k + 1]]]

RECURSIVE RefDet(_)
\* the determinant of R, expanded along the first column
RefDet(R) ==
    IF Len(R) = 1 THEN R[1][1]
    ELSE Sum([i \in 1..Len(R) |->
                TMul(TMul(R[i][1], RefSign(i, 1)), RefDet(RefMinor(R, i, 1)))])

\* the Laplace expansion of the determinant of A along the first row
RefLaplace(A) ==
    LET R == Rows(A)
    IN  IF A.N = 1 THEN R[1][1]
        ELSE Sum([j \in 1..A.N |->
                    TMul(TMul(R[1][j], RefSign(1, j)), RefDet(RefMinor(R, 1, j)))])

\* adjugate(A) / determinant(A): element (i, j) is the cofactor of (j, i)
\* over the determinant
RefAdjugateOverDet(A) ==
    LET R == Rows(A)
        d == RefDet(R)
    IN  [A EXCEPT !.m = [t \in 1..(A.N * A.N) |->
                           LET i == ((t - 1) \div A.N) + 1
                               j == ((t - 1) % A.N) + 1
                           IN  IF A.N = 1 THEN TDiv(T(1), d)
                               ELSE TDiv(TMul(RefSign(i, j), RefDet(RefMinor(R, j, i))), d)]]

\* C5: for every N x M matrix A and M x P matrix B, A * B is the N x P matrix
\* of the sums over k of A[i][k] * B[k][j], computed without touching any
\* element outside A, B and the result.
C5_ProductIsTripleSum ==
    (op = "operator*") => (res = RefProduct(lhs, rhs) /\ ~oob)

\* C6: determinant(m) of a square matrix of rank 1 to 4 is the Laplace
\* expansion along the first row (the single element at rank 1); the
\* determinant of the identity is 1, that of {{1,2,3},{4,5,6},{7,8,9}} is 0.
C6_DeterminantIsLaplace ==
    (op = "determinant") =>
        /\ res = RefLaplace(lhs)
        /\ (lhs = IDENTITY(lhs.N, lhs.N)) => (res = T(1))
        /\ (lhs = Test3x3Singular) => (res = T(0))

\* the determinant of a 4 x 4 matrix was computed and is not zero
C6_Witness == op = "determinant" /\ lhs.N = 4 /\ res # T(0) /\ lhs # IDENTITY(4, 4)

Divisions ==
    {"Matrix::operator/", "Matrix::operator/=", "Vector::operator/",
     "Vector::operator/=", "Quaternion::operator/", "Quaternion::operator/="}

\* C9: scalar division of a Vector, Matrix or Quaternion by an explicitly
\* passed zero scalar fires the debug assertion and never hands back a
\* substitute result such as a zero-filled or unchanged value.
C9_DivideByZeroAsserts ==
    (op \in Divisions /\ rhs = T(0) /\ ~ndebug) => (fault = "assert")

\* C10: transpose(transpose(M)) == M for every matrix M of every shape.
C10_TransposeTwice == (op = "transpose transpose") => (res = lhs)

\* a matrix with more than one row and more columns than rows was transposed
\* twice
C10_Witness ==
    /\ op = "transpose transpose"
    /\ lhs.N > 1 /\ lhs.M > lhs.N
    /\ Rows(lhs)[1] # Rows(lhs)[2]

---------------------------------------------------------------------------
(* Claims about the construction of a Matrix, checked under SpecConstruct. *)

\* C11: Matrix<T,N,M>( copy, i, j ) of an (N+1) x (M+1) copy with i <= N and
\* j <= M is the minor: copy with row i and column j deleted and the other
\* rows and columns in their order, and it writes exactly the N * M elements
\* of the result.
C11_SubmatrixIsMinor ==
    (op = "Matrix( copy, i, j )" /\ rhs.i <= lhs.N - 1 /\ rhs.j <= lhs.M - 1)
        => /\ res.N = lhs.N - 1 /\ res.M = lhs.M - 1
           /\ Rows(res) = RefMinor(Rows(lhs), rhs.i + 1, rhs.j + 1)
           /\ Len(Matrix_minor(lhs, rhs.i, rhs.j).m) = res.N * res.M
           /\ ~oob

\* an inner row and the last column of a 3 x 3 matrix were deleted
C11_Witness ==
    /\ op = "Matrix( copy, i, j )"
    /\ lhs.N = 3 /\ lhs.M = 3
    /\ rhs.i = 1 /\ rhs.j = 2
    /\ Rows(lhs)[1] # Rows(lhs)[3]

\* C12: Matrix<T,N,M>( copy ) of an I x J copy holds the top-left
\* min(N,I) x min(M,J) overlap of copy, 1 at every diagonal position (k, k)
\* outside the overlap and 0 everywhere else; the diagonal fill overwrites no
\* element of the overlap.
C12_ConvertEmbedsInIdentity ==
    (op = "Matrix( copy )")
        => /\ res.N = rhs.N /\ res.M = rhs.M
           /\ \A i \in 1..res.N, j \in 1..res.M :
                  At(res, i, j) =
                      IF i <= Min(res.N, lhs.N) /\ j <= Min(res.M, lhs.M)
                      THEN At(lhs, i, j)
                      ELSE IF i = j THEN T(1) ELSE T(0)

\* a 2 x 3 matrix with a diagonal element other than 1 was converted to a
\* 3 x 3 matrix: the position (2, 2) lies outside the overlap
C12_Witness ==
    /\ op = "Matrix( copy )"
    /\ lhs.N = 2 /\ lhs.M = 3
    /\ res.N = 3 /\ res.M = 3
    /\ At(lhs, 1, 1) # T(1) /\ At(lhs, 2, 2) # T(1)

\* the functions that build a matrix from a diagonal value
DiagonalBuilders == {"Matrix( s )", "diagonal", "IDENTITY"}

\* C13: for every shape N x M, Matrix( s ), diagonal( x ) and IDENTITY hold
\* the diagonal value at exactly the min(N,M) positions (k, k) and zero at
\* every other position.
C13_DiagonalAtRankPositions ==
    (op \in DiagonalBuilders)
        => /\ res.N = rhs.N /\ res.M = rhs.M
           /\ Len(res.m) = res.N * res.M
           /\ \A i \in 1..res.N, j \in 1..res.M :
                  At(res, i, j) = IF i = j THEN rhs.s ELSE T(0)

\* a matrix with more columns than rows, and more than one row, was built by
\* diagonal() from a value other than zero
C13_Witness ==
    /\ op = "diagonal"
    /\ res.N = 2 /\ res.M = 3
    /\ rhs.s # T(0)

---------------------------------------------------------------------------
(* Claims about Vector, checked under SpecVector.                          *)

\* C14: for an N x M matrix A, square or not, and a vector v of M
\* components, A * v is the vector of N components whose component i is the
\* sum over k of A[i][k] * v[k].
C14_MatrixTimesVector ==
    (op = "Matrix::operator*( Vector )")
        => /\ Len(res) = lhs.matrix.N
           /\ \A i \in 1..lhs.matrix.N :
                  res[i] = Sum([k \in 1..lhs.matrix.M |->
                                   TMul(Rows(lhs.matrix)[i][k], rhs[k])])

\* a 2 x 3 matrix was multiplied with a vector of 3 components
C14_Witness ==
    /\ op = "Matrix::operator*( Vector )"
    /\ lhs.matrix.N = 2 /\ lhs.matrix.M = 3
    /\ res[1] # res[2]

\* C15: Vector<T,N>( copy, args... ) holds the first min(N,N') components of
\* copy, then the extra arguments from left to right in the slots that
\* remain, then zeros; components of copy and arguments that do not fit are
\* ignored and nothing is written past component N - 1.
C15_VectorFromVectorAndArgs ==
    (op = "Vector( copy, args )")
        => LET N == Len(lhs.vector)
               c == Min(N, Len(rhs))
           IN  /\ Len(res) = N
               /\ \A k \in 1..N :
                      res[k] = IF k <= c THEN rhs[k]
                               ELSE IF k - c <= Len(lhs.args) THEN lhs.args[k - c]
                               ELSE T(0)

\* a vector of 3 components was built from a vector of 1 component and two
\* extra arguments
C15_Witness ==
    /\ op = "Vector( copy, args )"
    /\ Len(lhs.vector) = 3 /\ Len(rhs) = 1 /\ Len(lhs.args) = 2

\* a vector of 2 components was built from a vector of 3 components and
\* extra arguments, none of which fits
C15_WitnessShrink ==
    /\ op = "Vector( copy, args )"
    /\ Len(lhs.vector) = 2 /\ Len(rhs) = 3 /\ Len(lhs.args) = 1

\* C16: after target = rhs, target holds the first N components of a larger
\* rhs; for a smaller rhs of M components it holds those M components and 0
\* in its remaining N - M components, whatever it held before.
C16_AssignZeroFills ==
    (op = "Vector::operator=")
        => LET N == Len(lhs.vector)
           IN  /\ Len(res) = N
               /\ \A k \in 1..N :
                      res[k] = IF k <= Len(rhs) THEN rhs[k] ELSE T(0)

\* the outcome of comparing a and b at the first index where they differ
RefLexicographic(a, b) ==
    LET differ == {i \in 1..Len(a) : a[i] # b[i]}
    IN  IF differ = {} THEN "equivalent"
        ELSE LET first == CHOOSE i \in differ : \A k \in differ : i <= k
             IN  IF a[first][1] * b[first][2] < b[first][1] * a[first][2]
                 THEN "less" ELSE "greater"

\* C17: a <=> b is the comparison of the components at the first index where
\* a and b differ, and 'equal' when there is none; a == b is true exactly
\* when a <=> b is 'equal', that is when all components are equal.
C17_LexicographicOrder ==
    /\ (op = "Vector::operator<=>") => (res = RefLexicographic(lhs.vector, rhs))
    /\ (op = "Vector::operator==")
           => /\ res = (Vector_operatorSpaceship(lhs.vector, rhs) = "equivalent")
              /\ res = (lhs.vector = rhs)

\* two vectors that agree in their first component and differ in a later one
\* were compared
C17_Witness ==
    /\ op = "Vector::operator<=>"
    /\ Len(rhs) > 1
    /\ lhs.vector[1] = rhs[1]
    /\ lhs.vector # rhs
    /\ res # "equivalent"

---------------------------------------------------------------------------
(* Claims about Quaternion, checked under SpecQuaternion.  The reference   *)
(* product is stated on the scalar part s and the vector part v of a       *)
(* quaternion: (s1, v1)(s2, v2) = (s1 s2 - v1.v2, s1 v2 + s2 v1 + v1 x v2). *)

\* the vector part of q
RefVec(q) == <<q.x, q.y, q.z>>

\* a . b and a x b for vectors of 3 components
RefDot3(a, b) == Sum([k \in 1..3 |-> TMul(a[k], b[k])])
RefCross3(a, b) ==
    <<TSub(TMul(a[2], b[3]), TMul(a[3], b[2])),
      TSub(TMul(a[3], b[1]), TMul(a[1], b[3])),
      TSub(TMul(a[1], b[2]), TMul(a[2], b[1]))>>

\* the Hamilton product of q1 and q2
RefHamilton(q1, q2) ==
    LET v == [k \in 1..3 |->
                 TAdd(TAdd(TMul(q1.w, RefVec(q2)[k]), TMul(q2.w, RefVec(q1)[k])),
                      RefCross3(RefVec(q1), RefVec(q2))[k])]
    IN  [w |-> TSub(TMul(q1.w, q2.w), RefDot3(RefVec(q1), RefVec(q2))),
         x |-> v[1], y |-> v[2], z |-> v[3]]

\* the functions that multiply two quaternions
Products == {"Quaternion::operator*", "Quaternion::operator*=", "cross"}

\* C18: q1 * q2, q1 *= q2 and cross( q1, q2 ) all yield the Hamilton product
\* (w1w2-x1x2-y1y2-z1z2, w1x2+x1w2+y1z2-z1y2, w1y2-x1z2+y1w2+z1x2,
\* w1z2+x1y2-y1x2+z1w2) for all inputs.
C18_ProductIsHamilton == (op \in Products) => (res = RefHamilton(lhs, rhs))

\* q *= r ran on two quaternions that do not commute, none of whose
\* components is zero
C18_Witness ==
    /\ op = "Quaternion::operator*="
    /\ RefHamilton(lhs, rhs) # RefHamilton(rhs, lhs)
    /\ \A q \in {lhs, rhs} : T(0) \notin {q.w, q.x, q.y, q.z}

\* C19: -(w, x, y, z) = (-w, -x, -y, -z): unary minus negates all four
\* components.
C19_NegationNegatesAll ==
    (op = "Quaternion::operator-")
        => (res = [w |-> TNeg(lhs.w), x |-> TNeg(lhs.x),
                   y |-> TNeg(lhs.y), z |-> TNeg(lhs.z)])

\* C20: q * conjugate( q ) = (dot( q, q ), 0, 0, 0) for every q, and so the
\* identity quaternion for a q of length 1.
C20_TimesConjugateIsNormSquared ==
    (op = "q * conjugate( q )")
        => LET n2 == Sum(<<TMul(lhs.w, lhs.w), TMul(lhs.x, lhs.x),
                           TMul(lhs.y, lhs.y), TMul(lhs.z, lhs.z)>>)
           IN  /\ res = [w |-> n2, x |-> T(0), y |-> T(0), z |-> T(0)]
               /\ Quaternion_dot(lhs, lhs) = n2
               /\ (n2 = T(1)) => (res = Quaternion_IDENTITY)

\* a quaternion of length 1 with a vector part was multiplied with its
\* conjugate
C20_Witness ==
    /\ op = "q * conjugate( q )"
    /\ Quaternion_dot(lhs, lhs) = T(1)
    /\ lhs # Quaternion_IDENTITY
    /\ lhs.x # T(0) /\ lhs.w # T(0)

\* a quaternion whose length is not 1 was multiplied with its conjugate
C20_WitnessNonUnit ==
    /\ op = "q * conjugate( q )"
    /\ Quaternion_dot(lhs, lhs) # T(1)
    /\ res.w # T(0)

---------------------------------------------------------------------------
(* Claims about lerp and slerp, checked under SpecInterpolate.             *)

\* C21: lerp( q0, q1, 0 ) == q0 and lerp( q0, q1, 1 ) == q1 exactly, for
\* every pair of quaternions.
C21_LerpEndpoints ==
    (op = "lerp")
        => /\ (rhs = T(0)) => (fault = "none" /\ res = lhs.q0)
           /\ (rhs = T(1)) => (fault = "none" /\ res = lhs.q1)

\* lerp ran with t = 1 on two quaternions that differ in every component
C21_Witness ==
    /\ op = "lerp" /\ rhs = T(1)
    /\ lhs.q0.w # lhs.q1.w /\ lhs.q0.x # lhs.q1.x
    /\ lhs.q0.y # lhs.q1.y /\ lhs.q0.z # lhs.q1.z
    /\ res = lhs.q1

\* every component of a is within EPSILON of the component of b
WithinTolerance(a, b) ==
    /\ TLessEq(TAbs(TSub(a.w, b.w)), EPSILON)
    /\ TLessEq(TAbs(TSub(a.x, b.x)), EPSILON)
    /\ TLessEq(TAbs(TSub(a.y, b.y)), EPSILON)
    /\ TLessEq(TAbs(TSub(a.z, b.z)), EPSILON)

\* C22: slerp( q0, q1, 0 ) == q0 and slerp( q0, q1, 1 ) == q1 within
\* tolerance for any two quaternions, on every branch: the lerp fallback, the
\* branch of a non-negative dot product and the branch of a negative one.
C22_SlerpEndpoints ==
    (op = "slerp")
        => /\ (rhs = T(0)) => (fault = "none" /\ WithinTolerance(res, lhs.q0))
           /\ (rhs = T(1)) => (fault = "none" /\ WithinTolerance(res, lhs.q1))

---------------------------------------------------------------------------
(* Claims about normalize, checked under SpecNormalize.                    *)

\* TRUE when no component of the sequence or record r is an infinity or a
\* NaN, the outcome of a division by zero
Finite(r) == \A k \in DOMAIN r : r[k][2] # 0

\* C23: normalize of an input of length exactly 0 neither asserts nor divides
\* by zero: a Vector is returned unchanged and a Quaternion yields IDENTITY
\* (1, 0, 0, 0).
C23_NormalizeZeroLength ==
    /\ (op = "normalize( Vector )" /\ \A k \in DOMAIN lhs.vector : lhs.vector[k] = T(0))
           => (fault = "none" /\ res = lhs.vector /\ Finite(res))
    /\ (op = "normalize( Quaternion )"
            /\ \A k \in DOMAIN lhs.quaternion : lhs.quaternion[k] = T(0))
           => (fault = "none" /\ res = Quaternion_IDENTITY)
    /\ (op \in {"normalize( Vector )", "normalize( Quaternion )"})
           => (fault = "none" /\ Finite(res))

\* normalize ran on the zero vector of 3 components in a build with assert()
C23_Witness ==
    /\ op = "normalize( Vector )"
    /\ lhs.vector = <<T(0), T(0), T(0)>>
    /\ ~ndebug

\* normalize ran on the zero quaternion in a build with assert()
C23_WitnessQuaternion ==
    /\ op = "normalize( Quaternion )"
    /\ lhs.quaternion.w = T(0) /\ Quaternion_dot(lhs.quaternion, lhs.quaternion) = T(0)
    /\ ~ndebug

---------------------------------------------------------------------------
(* Claims about swizzle, checked under SpecSwizzle.                        *)

\* C24: swizzle( v, X, Y, Z, W ) with X, Y, Z, W < N returns the vector of
\* the four components v[X], v[Y], v[Z], v[W], in that order.
C24_SwizzleFour ==
    (op = "swizzle4" /\ \A k \in 1..4 : rhs[k] < Len(lhs))
        => /\ fault = "none"
           /\ res = <<lhs[rhs[1] + 1], lhs[rhs[2] + 1], lhs[rhs[3] + 1], lhs[rhs[4] + 1]>>

---------------------------------------------------------------------------
(* Claims about equal( a, b, epsilon ), checked under SpecEqual.           *)

\* |x - y| <= e, on the numerators and denominators of finite values
RefWithin(x, y, e) ==
    LET d == TSub(x, y)
    IN  Abs(d[1]) * e[2] <= e[1] * d[2]

\* C30: equal( a, b, epsilon ) follows one rule for Vector and Quaternion:
\* component i of the result is true exactly when |a[i] - b[i]| <=
\* epsilon[i]; so all( equal( a, a ) ) is true with the default, zero epsilon
\* for both types.
C30_EqualWithinEpsilon ==
    /\ (op = "equal( Vector )")
           => /\ \A i \in 1..Len(lhs.vector) :
                     res[i] = RefWithin(lhs.vector[i], rhs.vector[i], rhs.epsilon[i])
              /\ (lhs.vector = rhs.vector /\ rhs.epsilon[1] = T(0)) => Vector_all(res)
    /\ (op = "equal( Quaternion )")
           => /\ \A i \in 1..4 :
                     res[i] = RefWithin(Quaternion_quat(lhs.quaternion)[i],
                                        Quaternion_quat(rhs.quaternion)[i],
                                        rhs.epsilon[i])
              /\ (lhs.quaternion = rhs.quaternion /\ rhs.epsilon[1] = T(0))
                     => Vector_all(res)

---------------------------------------------------------------------------
(* Claims about nextHighestPow2, checked under SpecPow2.                   *)

\* a <= b for two words of one width, as unsigned integers
RefLessEq(a, b) ==
    LET differ == {i \in 1..Len(a) : a[i] # b[i]}
    IN  differ = {} \/ b[CHOOSE i \in differ : \A k \in differ : k <= i] = 1

\* 2^k as a word of the width of v
RefPow2(k, v) == [i \in 1..Len(v) |-> IF i = k + 1 THEN 1 ELSE 0]

\* C25: for 1 <= v <= 2^31 (uint32_t) and 1 <= v <= 2^63 (uint64_t),
\* nextHighestPow2( v ) is the smallest power of two that is >= v; a power of
\* two maps to itself.
C25_NextHighestPow2 ==
    (op = "nextHighestPow2"
        /\ RefLessEq(RefPow2(0, lhs), lhs)
        /\ RefLessEq(lhs, RefPow2(Len(lhs) - 1, lhs)))
        => /\ \E k \in 0..(Len(lhs) - 1) : res = RefPow2(k, lhs)
           /\ RefLessEq(lhs, res)
           /\ \A k \in 0..(Len(lhs) - 1) :
                  RefLessEq(lhs, RefPow2(k, lhs)) => RefLessEq(res, RefPow2(k, lhs))
           /\ (\E k \in 0..(Len(lhs) - 1) : lhs = RefPow2(k, lhs)) => (res = lhs)

\* nextHighestPow2 ran on the uint64_t 2^40 + 2^3, which is not a power of two
C25_Witness ==
    /\ op = "nextHighestPow2"
    /\ lhs = [i \in 1..64 |-> IF i \in {4, 41} THEN 1 ELSE 0]
    /\ res = RefPow2(41, lhs)

\* nextHighestPow2 ran on the uint32_t 2^31, the largest power of two
C25_WitnessLargest ==
    /\ op = "nextHighestPow2"
    /\ Len(lhs) = 32 /\ lhs = RefPow2(31, lhs)
    /\ res = lhs

---------------------------------------------------------------------------
(* Claims about alignUp and isAligned, checked under SpecAlign.            *)

RECURSIVE RefValue(_)
\* the number a word stands for
RefValue(v) == IF v = <<>> THEN 0 ELSE v[1] + 2 * RefValue(Tail(v))

\* the smallest multiple of a that is >= n
RefSmallestMultiple(n, a) == CHOOSE m \in n..(n + a - 1) : m % a = 0

\* the alignment is a power of two and the aligned value fits in T
RefAlignable ==
    /\ \E k \in 0..8 : RefValue(rhs) = 2 ^ k
    /\ RefSmallestMultiple(RefValue(lhs), RefValue(rhs)) < 2 ^ Len(lhs)

\* C26: for a power-of-two alignment and no overflow, alignUp( value,
\* alignment ) is the smallest multiple of alignment that is >= value, and
\* isAligned( alignUp( value, alignment ), alignment ) is true.
C26_AlignUp ==
    /\ (op = "alignUp" /\ RefAlignable)
           => RefValue(res) = RefSmallestMultiple(RefValue(lhs), RefValue(rhs))
    /\ (op = "isAlignedUp" /\ RefAlignable) => (res = TRUE)

\* alignUp( 13, 8 ) ran and returned 16
C26_Witness ==
    /\ op = "alignUp" /\ RefAlignable
    /\ RefValue(lhs) = 13 /\ RefValue(rhs) = 8
    /\ RefValue(res) = 16

\* isAligned ran on the result of alignUp( 13, 8 )
C26_WitnessIsAligned ==
    /\ op = "isAlignedUp" /\ RefAlignable
    /\ RefValue(lhs) = 13 /\ RefValue(rhs) = 8
    /\ res = TRUE

---------------------------------------------------------------------------
(* Claims about the two transpose algorithms, checked under                *)
(* SpecTransposeSquare.                                                    *)

\* C27: on a square matrix the in-place swap transpose and the element-copy
\* transpose give identical results, and element (j, i) of the result is
\* element (i, j) of the source.
C27_TransposeAlgorithmsAgree ==
    /\ (res # <<>> /\ rhs # <<>>) => (res = rhs)
    /\ (res # <<>>) =>
           /\ res.N = lhs.M /\ res.M = lhs.N
           /\ \A i \in 1..lhs.N, j \in 1..lhs.M : At(res, j, i) = At(lhs, i, j)
    /\ (rhs # <<>>) =>
           /\ rhs.N = lhs.M /\ rhs.M = lhs.N
           /\ \A i \in 1..lhs.N, j \in 1..lhs.M : At(rhs, j, i) = At(lhs, i, j)

\* both algorithms ran on a matrix of rank 3 or more that is not symmetric
C27_Witness ==
    /\ res # <<>> /\ rhs # <<>>
    /\ lhs.N >= 3
    /\ res # lhs

---------------------------------------------------------------------------
(* Claims about the adjugate, checked under SpecAdjugate.                  *)

\* C29: for every square integer matrix M of rank 2 to 4, singular or not,
\* M * adjugate( M ) is determinant( M ) times the identity, and the
\* determinant inverse() accumulates from the first row of M and the first
\* column of the adjugate equals determinant( M ).
C29_TimesAdjugateIsDeterminant ==
    /\ (op = "times adjugate") =>
           /\ ~oob
           /\ res.N = lhs.N /\ res.M = lhs.N
           /\ \A i \in 1..lhs.N, j \in 1..lhs.N :
                  At(res, i, j) = IF i = j THEN determinant(lhs) ELSE T(0)
    /\ (op = "inverse det") => (res = determinant(lhs))

\* the product was taken for a non-singular matrix of rank 4
C29_Witness ==
    /\ op = "times adjugate"
    /\ lhs.N = 4
    /\ determinant(lhs) # T(0)
    /\ At(res, 1, 1) = determinant(lhs)

\* the product was taken for a singular matrix that is not the zero matrix
C29_WitnessSingular ==
    /\ op = "times adjugate"
    /\ determinant(lhs) = T(0)
    /\ lhs # Matrix_default(lhs.N, lhs.N)
    /\ rhs # Matrix_default(lhs.N, lhs.N)

\* inverse() took its determinant from a matrix that is not symmetric
C29_WitnessInverse ==
    /\ op = "inverse det"
    /\ lhs # Matrix_Transpose_generic(lhs)
    /\ res # T(0)

=============================================================================
